---- MODULE Spec2Model ----
(***************************************************************************)
(* A model of go-notification-service: the Firestore device registry, its  *)
(* read-aside cache decorator, the per-message handler with its two        *)
(* dispatchers, and the bus-driven pipeline runtime around it.             *)
(***************************************************************************)
EXTENDS Integers, Sequences, FiniteSets, TLC

VARIABLES
    store,      \* Firestore: document path -> deviceRecord (existing documents only)
    cache,      \* Redis: key -> JSON value (existing keys only)
    cfgRedis,   \* cfg.Redis.Enabled: is the registry decorated by the cache
    call,       \* per process: the registry call in flight and its position
    ncalls,     \* registry calls started by API clients so far; also the clock time.Now() reads
    nfaults,    \* backend failures injected so far
    applied,    \* history: per <<user, endpoint>>, the store writes in the order Firestore applied them
    gone,       \* history: <<user, channel, endpoint>> whose removal was returned as success
    overlapped, \* history: users on whom two registry calls were in flight at once
    lastRet,    \* history: per user, how the registry call that returned last ended
    answered,   \* history: the devices whose unregister request the API answered 204
    bus,        \* Pub/Sub subscription: per message its data, delivery state and delivery attempts
    dlq,        \* the messages published on the dead-letter topic, in order
    hnd,        \* per pipeline worker: the message it holds and the handler's position
    journal,    \* history: per message, one entry for each delivery that was acked or nacked
    outages,    \* provider failures (FCM transport or transient) the environment may still cause
    svc         \* the service Wrapper: where Start and Shutdown stand and what they did

regVars == <<store, cache, cfgRedis, call, ncalls, nfaults, applied, gone, overlapped,
             lastRet, answered>>

pipeVars == <<bus, dlq, hnd, journal, outages, svc>>

vars == <<regVars, pipeVars>>

-----------------------------------------------------------------------------
(* Bounds of the model *)

MaxCalls == 3
MaxFaults == 1
MaxOutages == 1

(* Constants of the program *)

MaxDeliveryAttempts == 5

(* The values the operations are exercised with *)

UserA == "urn:sm:user:a"
UserB == "urn:sm:user:b"
Users == {UserA, UserB}
Endpoints == {"e1", "e2"}
KeysA == [P256dh |-> "p1", Auth |-> "a1"]
KeysB == [P256dh |-> "p2", Auth |-> "a2"]
KeyPairs == {KeysA, KeysB}
NoKeys == [P256dh |-> "", Auth |-> ""]
Clients == {"c1", "c2"}
ClientRank(p) == IF p = "c1" THEN 1 ELSE 2
Workers == {"w1", "w2"}
WorkerRank(w) == IF w = "w1" THEN 1 ELSE 2
Procs == Clients \cup Workers
Msgs == {"m1", "m2"}

\* messagepipeline.NewGooglePubsubConsumerDefaults(id), and the nil pointer.
ConsumerDefaults(id) == [set |-> TRUE, SubscriptionID |-> id]
NilConsumerConfig == [set |-> FALSE, SubscriptionID |-> ""]

\* The Config main loads from the embedded YAML, and an environment that sets none of
\* the variables UpdateConfigWithEnvOverrides reads.
BaseConfig ==
    [ProjectID |-> "base-project", ListenAddr |-> ":8080", SubscriptionID |-> "base-sub",
     SubscriptionDLQTopicID |-> "base-dlq", NumPipelineWorkers |-> 2,
     RedisEnabled |-> TRUE, RedisAddr |-> "redis:6379",
     PubsubConsumerConfig |-> ConsumerDefaults("base-sub")]

NoEnv ==
    [PROJECT_ID |-> "", PORT |-> "", SUBSCRIPTION_ID |-> "",
     SUBSCRIPTION_DLQ_TOPIC_ID |-> "", NUM_PIPELINE_WORKERS |-> "",
     REDIS_ADDR |-> "", REDIS_ENABLED |-> ""]

\* The Wrapper returned by New: nothing started, not ready.
NewService ==
    [pc |-> "new", pipeline |-> "stopped", ready |-> FALSE, http |-> "down",
     startRet |-> "", finalErr |-> "", trace |-> << >>,
     yaml |-> BaseConfig, env |-> NoEnv, cfg |-> BaseConfig, cfgErr |-> ""]

\* The Wrapper once Start has started the pipeline and serves HTTP.
ServingService ==
    [NewService EXCEPT !.pc = "serving", !.pipeline = "running", !.ready = TRUE,
                       !.http = "listening",
                       !.trace = <<"pipelineService.Start:ok", "SetReady(true)",
                                   "BaseServer.Start">>]

WriteOps == {"RegisterFCM", "UnregisterFCM", "RegisterWeb", "UnregisterWeb"}
RegisterOps == {"RegisterFCM", "RegisterWeb"}
UnregisterOps == {"UnregisterFCM", "UnregisterWeb"}
ChannelOf(op) == IF op \in {"RegisterFCM", "UnregisterFCM"} THEN "fcm" ELSE "web"

-----------------------------------------------------------------------------
(* FirestoreStore *)

\* Mutant: a hash that sends every token to the same document id.
hashToken_Collides(t) == "3fc0"

\* sha256 + hex of the token or endpoint: a fixed, collision-free document id
\* whose order is not the order of the hashed strings.
hashToken(t) ==
    IF t = "e1" THEN "9a41" ELSE IF t = "e2" THEN "3fc0" ELSE "e3b0"

\* The document ids in the order a collection query returns them.
DocOrder == <<"3fc0", "9a41", "e3b0">>

devicesCollection(user) == <<"users", user, "devices">>

deviceRef(user, docID) == Append(devicesCollection(user), docID)

\* Mutant: a write that creates the document and leaves an existing one as it is.
DocSet_KeepsExisting(st, ref, record) ==
    IF ref \in DOMAIN st THEN st
    ELSE [r \in DOMAIN st \cup {ref} |-> IF r = ref THEN record ELSE st[r]]

\* DocumentRef.Set: create or overwrite the one document at ref.
DocSet(st, ref, record) ==
    [r \in DOMAIN st \cup {ref} |-> IF r = ref THEN record ELSE st[r]]

\* DocumentRef.Delete: remove the document at ref; deleting a missing document succeeds.
DocDelete(st, ref) ==
    [r \in DOMAIN st \ {ref} |-> st[r]]

fcmRecord(token, ts) ==
    [Platform |-> "fcm", Token |-> token, WebSubscription |-> <<>>, UpdatedAt |-> ts]

webRecord(sub, ts) ==
    [Platform |-> "web", Token |-> "", WebSubscription |-> <<sub>>, UpdatedAt |-> ts]

WebSub(endpoint, keys) == [Endpoint |-> endpoint, Keys |-> keys]

RegisterFCM(st, user, token, ts) ==
    DocSet(st, deviceRef(user, hashToken(token)), fcmRecord(token, ts))

\* Mutant: the delete addresses the document by the raw token, not by its hash.
UnregisterFCM_RawDocID(st, user, token) ==
    DocDelete(st, deviceRef(user, token))

UnregisterFCM(st, user, token) ==
    DocDelete(st, deviceRef(user, hashToken(token)))

RegisterWeb(st, user, sub, ts) ==
    DocSet(st, deviceRef(user, hashToken(sub.Endpoint)), webRecord(sub, ts))

UnregisterWeb(st, user, endpoint) ==
    DocDelete(st, deviceRef(user, hashToken(endpoint)))

\* The documents of the user's devices collection, in query order.
RECURSIVE Documents(_, _, _)
Documents(st, user, i) ==
    IF i > Len(DocOrder) THEN <<>>
    ELSE LET ref == deviceRef(user, DocOrder[i])
         IN  (IF ref \in DOMAIN st THEN <<st[ref]>> ELSE <<>>)
                 \o Documents(st, user, i + 1)

EmptyRequest(user) ==
    [RecipientID |-> user, FCMTokens |-> <<>>, WebSubscriptions |-> <<>>]

\* Mutant: only the token of a record is looked at.
SortRecord_MobileOnly(req, record) ==
    IF record.Token # ""
    THEN [req EXCEPT !.FCMTokens = Append(@, record.Token)]
    ELSE req

\* The bucket a record is appended to ("sorting hat").
SortRecord(req, record) ==
    IF record.Platform = "web" /\ record.WebSubscription # <<>>
    THEN [req EXCEPT !.WebSubscriptions = Append(@, record.WebSubscription[1])]
    ELSE IF record.Token # ""
         THEN [req EXCEPT !.FCMTokens = Append(@, record.Token)]
         ELSE req

RECURSIVE SortAll(_, _, _)
SortAll(docs, i, req) ==
    IF i > Len(docs) THEN req
    ELSE SortAll(docs, i + 1, SortRecord(req, docs[i]))

Fetch(st, user) == SortAll(Documents(st, user, 1), 1, EmptyRequest(user))

\* The store write a registry operation performs.
StoreApply(st, op, user, arg, keys, ts) ==
    CASE op = "RegisterFCM"   -> RegisterFCM(st, user, arg, ts)
      [] op = "UnregisterFCM" -> UnregisterFCM(st, user, arg)
      [] op = "RegisterWeb"   -> RegisterWeb(st, user, WebSub(arg, keys), ts)
      [] op = "UnregisterWeb" -> UnregisterWeb(st, user, arg)

-----------------------------------------------------------------------------
(* RedisClient and CachedTokenStore helpers *)

\* Mutant: one cache key for every user.
cacheKey_Shared(user) == <<"notify:tokens:", "">>

cacheKey(user) == <<"notify:tokens:", user>>

\* RedisClient.Set stores json.Marshal(value); RedisClient.Get decodes it.
\* encoding/json writes a []byte as a string in standard base64 and reads it back
\* from one: base64.StdEncoding over the key buffers the model uses.
EncodeToString(buf) ==
    CASE buf = "" -> ""
      [] buf = "p1" -> "cDE="
      [] buf = "a1" -> "YTE="
      [] buf = "p2" -> "cDI="
      [] buf = "a2" -> "YTI="

DecodeString(text) ==
    CASE text = "" -> [buf |-> "", err |-> ""]
      [] text = "cDE=" -> [buf |-> "p1", err |-> ""]
      [] text = "YTE=" -> [buf |-> "a1", err |-> ""]
      [] text = "cDI=" -> [buf |-> "p2", err |-> ""]
      [] text = "YTI=" -> [buf |-> "a2", err |-> ""]
      [] OTHER -> [buf |-> "", err |-> "illegal base64 data"]

\* The JSON form of a subscription's keys, and the keys read from it.
MarshalKeys(keys) ==
    [P256dh |-> EncodeToString(keys.P256dh), Auth |-> EncodeToString(keys.Auth)]

UnmarshalKeys(text) ==
    [P256dh |-> DecodeString(text.P256dh).buf, Auth |-> DecodeString(text.Auth).buf]

jsonMarshal(req) ==
    <<"json", req.RecipientID, req.FCMTokens,
      [i \in 1..Len(req.WebSubscriptions) |->
          [Endpoint |-> req.WebSubscriptions[i].Endpoint,
           Keys |-> MarshalKeys(req.WebSubscriptions[i].Keys)]]>>

\* Mutant: the keys are taken from the cached JSON as they stand, without decoding.
jsonUnmarshal_RawKeys(val) ==
    [RecipientID |-> val[2], FCMTokens |-> val[3], WebSubscriptions |-> val[4]]

jsonUnmarshal(val) ==
    [RecipientID |-> val[2], FCMTokens |-> val[3],
     WebSubscriptions |->
        [i \in 1..Len(val[4]) |->
            [Endpoint |-> val[4][i].Endpoint, Keys |-> UnmarshalKeys(val[4][i].Keys)]]]

RedisSet(c, key, value) ==
    [k \in DOMAIN c \cup {key} |-> IF k = key THEN jsonMarshal(value) ELSE c[k]]

RedisDel(c, key) == [k \in DOMAIN c \ {key} |-> c[k]]

-----------------------------------------------------------------------------
(* Helpers on sequences and results *)

Range(s) == {s[i] : i \in 1..Len(s)}

Count(s, x) == Cardinality({i \in 1..Len(s) : s[i] = x})

WebEndpoints(req) == [i \in 1..Len(req.WebSubscriptions) |-> req.WebSubscriptions[i].Endpoint]

\* The <<channel, endpoint>> pairs a Fetch result holds.
Devices(req) ==
    {<<"fcm", t>> : t \in Range(req.FCMTokens)}
        \cup {<<"web", e>> : e \in Range(WebEndpoints(req))}

\* What the auth middleware left in the request context: GetUserHandleFromContext
\* returns the identity string and whether one is present.
NoIdentity == [ok |-> FALSE, id |-> ""]

\* A request body: its shape as a JSON text and the members of its object.
NoBody == [shape |-> "empty", Token |-> "", Endpoint |-> "", Keys |-> NoKeys]

IdleCall ==
    [op |-> "none", user |-> "", arg |-> "", keys |-> NoKeys, ts |-> 0,
     pc |-> "idle", res |-> EmptyRequest(""), err |-> "", trace |-> <<>>,
     mustNotSee |-> {}, reReg |-> FALSE, regSeen |-> FALSE, afterWrite |-> FALSE,
     told |-> {}, identity |-> NoIdentity, body |-> NoBody, status |-> 0]

InFlight(user) == {q \in Procs : call[q].pc # "idle" /\ call[q].user = user}

-----------------------------------------------------------------------------
(* A registry call, step by step.  Each step is one request to Firestore or *)
(* to Redis; the requests of concurrent calls interleave.                   *)

\* A caller invokes Fetch or one of the four writes on the configured registry
\* (the CachedTokenStore when Redis is enabled, the FirestoreStore otherwise).
BeginCallWith(p, op, user, arg, keys, identity, body) ==
    /\ call[p].pc = "idle"
    /\ call' = [call EXCEPT ![p] =
            [IdleCall EXCEPT
                !.op = op, !.user = user, !.arg = arg, !.keys = keys, !.ts = ncalls,
                !.identity = identity, !.body = body,
                !.pc = IF op = "Fetch" THEN (IF cfgRedis THEN "get" ELSE "read")
                       ELSE "write",
                !.mustNotSee = {<<g[2], g[3]>> : g \in {x \in gone : x[1] = user}},
                !.told = {<<g[2], g[3]>> : g \in {x \in answered : x[1] = user}},
                !.afterWrite = (lastRet[user] = "writeOK")]]
    /\ overlapped' = IF InFlight(user) # {} THEN overlapped \cup {user} ELSE overlapped

BeginCall(p, op, user, arg, keys) ==
    BeginCallWith(p, op, user, arg, keys, NoIdentity, NoBody)

\* An API client starts a registry call.  Clients are interchangeable, so a new call
\* is given to the first client that is free.
ClientCall(p, ops, users, endpoints, keypairs) ==
    /\ ncalls < MaxCalls
    /\ \A q \in Clients : call[q].pc = "idle" => ClientRank(p) <= ClientRank(q)
    /\ \E op \in ops, user \in users :
          \/ /\ op = "Fetch"
             /\ BeginCall(p, op, user, "", NoKeys)
          \/ /\ op \in {"RegisterFCM", "UnregisterFCM", "UnregisterWeb"}
             /\ \E e \in endpoints : BeginCall(p, op, user, e, NoKeys)
          \/ /\ op = "RegisterWeb"
             /\ \E e \in endpoints, k \in keypairs : BeginCall(p, op, user, e, k)
    /\ ncalls' = ncalls + 1
    /\ UNCHANGED <<store, cache, cfgRedis, nfaults, applied, gone, lastRet>>
    /\ UNCHANGED <<pipeVars, answered>>

\* CachedTokenStore.Fetch, step 1: cache.Get.  A hit returns the cached value.
CacheGetHit(p) ==
    /\ call[p].pc = "get"
    /\ cacheKey(call[p].user) \in DOMAIN cache
    /\ call' = [call EXCEPT ![p].pc = "ret",
                            ![p].res = jsonUnmarshal(cache[cacheKey(call[p].user)]),
                            ![p].trace = Append(@, "cache.Get:hit")]
    /\ UNCHANGED <<store, cache, cfgRedis, ncalls, nfaults, applied, gone,
                   overlapped, lastRet>>
    /\ UNCHANGED <<pipeVars, answered>>

\* cache.Get reports redis.Nil: fall back to the real store.
CacheGetMiss(p) ==
    /\ call[p].pc = "get"
    /\ cacheKey(call[p].user) \notin DOMAIN cache
    /\ call' = [call EXCEPT ![p].pc = "read", ![p].trace = Append(@, "cache.Get:miss")]
    /\ UNCHANGED <<store, cache, cfgRedis, ncalls, nfaults, applied, gone,
                   overlapped, lastRet>>
    /\ UNCHANGED <<pipeVars, answered>>

\* Mutant: a failed cache.Get is returned as the error of Fetch.
CacheGetError_Fails(p) ==
    /\ call[p].pc = "get"
    /\ nfaults < MaxFaults
    /\ nfaults' = nfaults + 1
    /\ call' = [call EXCEPT ![p].pc = "ret", ![p].err = "cache",
                            ![p].trace = Append(@, "cache.Get:err")]
    /\ UNCHANGED <<store, cache, cfgRedis, ncalls, applied, gone, overlapped,
                   lastRet>>
    /\ UNCHANGED <<pipeVars, answered>>

\* cache.Get fails (Redis unreachable, undecodable value): treated as a miss.
CacheGetError(p) ==
    /\ call[p].pc = "get"
    /\ nfaults < MaxFaults
    /\ nfaults' = nfaults + 1
    /\ call' = [call EXCEPT ![p].pc = "read", ![p].trace = Append(@, "cache.Get:err")]
    /\ UNCHANGED <<store, cache, cfgRedis, ncalls, applied, gone, overlapped,
                   lastRet>>
    /\ UNCHANGED <<pipeVars, answered>>

\* realStore.Fetch succeeds.  The decorator goes on to populate the cache; the bare
\* store returns.
StoreFetchOK(p) ==
    /\ call[p].pc = "read"
    /\ call' = [call EXCEPT ![p].pc = IF cfgRedis THEN "set" ELSE "ret",
                            ![p].res = Fetch(store, call[p].user),
                            ![p].trace = Append(@, "store.Fetch:ok")]
    /\ UNCHANGED <<store, cache, cfgRedis, ncalls, nfaults, applied, gone,
                   overlapped, lastRet>>
    /\ UNCHANGED <<pipeVars, answered>>

\* realStore.Fetch fails (iteration error): the error is returned.
StoreFetchError(p) ==
    /\ call[p].pc = "read"
    /\ nfaults < MaxFaults
    /\ nfaults' = nfaults + 1
    /\ call' = [call EXCEPT ![p].pc = "ret", ![p].err = "store",
                            ![p].trace = Append(@, "store.Fetch:err")]
    /\ UNCHANGED <<store, cache, cfgRedis, ncalls, applied, gone, overlapped,
                   lastRet>>
    /\ UNCHANGED <<pipeVars, answered>>

\* CachedTokenStore.Fetch, step 3: cache.Set of the fresh value.
CacheSetOK(p) ==
    /\ call[p].pc = "set"
    /\ cache' = RedisSet(cache, cacheKey(call[p].user), call[p].res)
    /\ call' = [call EXCEPT ![p].pc = "ret", ![p].trace = Append(@, "cache.Set:ok")]
    /\ UNCHANGED <<store, cfgRedis, ncalls, nfaults, applied, gone, overlapped,
                   lastRet>>
    /\ UNCHANGED <<pipeVars, answered>>

\* cache.Set fails: ignored, the fresh value is returned all the same.
CacheSetError(p) ==
    /\ call[p].pc = "set"
    /\ nfaults < MaxFaults
    /\ nfaults' = nfaults + 1
    /\ call' = [call EXCEPT ![p].pc = "ret", ![p].trace = Append(@, "cache.Set:err")]
    /\ UNCHANGED <<store, cache, cfgRedis, ncalls, applied, gone, overlapped,
                   lastRet>>
    /\ UNCHANGED <<pipeVars, answered>>

\* The frames after Firestore applied a register of <<channel, endpoint>> for user:
\* the endpoint counts as registered again for every call in flight.
NoteRegistered(c, p, user, dev) ==
    [q \in DOMAIN c |->
        IF q # p /\ c[q].user = user
        THEN [c[q] EXCEPT
                !.mustNotSee = @ \ {dev},
                !.told = @ \ {dev},
                !.regSeen = @ \/ (/\ c[q].op \in UnregisterOps
                                  /\ <<ChannelOf(c[q].op), c[q].arg>> = dev),
                !.reReg = @ \/ (/\ c[q].op \in UnregisterOps
                                /\ <<ChannelOf(c[q].op), c[q].arg>> = dev
                                /\ c[q].pc \in {"del", "ret"})]
        ELSE c[q]]

\* realStore.RegisterFCM / RegisterWeb / UnregisterFCM / UnregisterWeb succeeds.
StoreWriteOK(p) ==
    /\ call[p].pc = "write"
    /\ LET f == call[p]
           dev == <<ChannelOf(f.op), f.arg>>
           next == [call EXCEPT ![p].pc = IF cfgRedis THEN "del" ELSE "ret",
                                ![p].trace = Append(@, "store." \o f.op \o ":ok")]
       IN  /\ store' = StoreApply(store, f.op, f.user, f.arg, f.keys, f.ts)
           /\ applied' = [applied EXCEPT ![<<f.user, f.arg>>] = Append(@, f.op)]
           /\ call' = IF f.op \in RegisterOps
                      THEN NoteRegistered(next, p, f.user, dev)
                      ELSE next
           /\ gone' = IF f.op \in RegisterOps THEN gone \ {<<f.user, dev[1], dev[2]>>}
                      ELSE gone
           /\ answered' = IF f.op \in RegisterOps
                          THEN answered \ {<<f.user, dev[1], dev[2]>>}
                          ELSE answered
    /\ UNCHANGED <<cache, cfgRedis, ncalls, nfaults, overlapped, lastRet>>
    /\ UNCHANGED pipeVars

\* Mutant: the store error is kept but the cache is invalidated all the same.
StoreWriteError_StillInvalidates(p) ==
    /\ call[p].pc = "write"
    /\ nfaults < MaxFaults
    /\ nfaults' = nfaults + 1
    /\ call' = [call EXCEPT ![p].pc = "del", ![p].err = "store",
                            ![p].trace = Append(@, "store." \o call[p].op \o ":err")]
    /\ UNCHANGED <<store, cache, cfgRedis, ncalls, applied, gone, overlapped,
                   lastRet>>
    /\ UNCHANGED <<pipeVars, answered>>

\* The store write fails: the store error is returned, the cache is left alone.
StoreWriteError(p) ==
    /\ call[p].pc = "write"
    /\ nfaults < MaxFaults
    /\ nfaults' = nfaults + 1
    /\ call' = [call EXCEPT ![p].pc = "ret", ![p].err = "store",
                            ![p].trace = Append(@, "store." \o call[p].op \o ":err")]
    /\ UNCHANGED <<store, cache, cfgRedis, ncalls, applied, gone, overlapped,
                   lastRet>>
    /\ UNCHANGED <<pipeVars, answered>>

\* Mutant: invalidate reports success without deleting the key.
CacheDelOK_KeepsKey(p) ==
    /\ call[p].pc = "del"
    /\ call' = [call EXCEPT ![p].pc = "ret", ![p].trace = Append(@, "cache.Del:ok")]
    /\ UNCHANGED <<store, cache, cfgRedis, ncalls, nfaults, applied, gone, overlapped,
                   lastRet>>
    /\ UNCHANGED <<pipeVars, answered>>

\* CachedTokenStore.invalidate: cache.Del of the user's key.
CacheDelOK(p) ==
    /\ call[p].pc = "del"
    /\ cache' = RedisDel(cache, cacheKey(call[p].user))
    /\ call' = [call EXCEPT ![p].pc = "ret", ![p].trace = Append(@, "cache.Del:ok")]
    /\ UNCHANGED <<store, cfgRedis, ncalls, nfaults, applied, gone, overlapped,
                   lastRet>>
    /\ UNCHANGED <<pipeVars, answered>>

\* Mutant: a failed cache.Del is swallowed and the operation reports success.
CacheDelError_ReturnsNil(p) ==
    /\ call[p].pc = "del"
    /\ nfaults < MaxFaults
    /\ nfaults' = nfaults + 1
    /\ call' = [call EXCEPT ![p].pc = "ret", ![p].trace = Append(@, "cache.Del:err")]
    /\ UNCHANGED <<store, cache, cfgRedis, ncalls, applied, gone, overlapped,
                   lastRet>>
    /\ UNCHANGED <<pipeVars, answered>>

\* cache.Del fails: its error is the operation's error.
CacheDelError(p) ==
    /\ call[p].pc = "del"
    /\ nfaults < MaxFaults
    /\ nfaults' = nfaults + 1
    /\ call' = [call EXCEPT ![p].pc = "ret", ![p].err = "cache",
                            ![p].trace = Append(@, "cache.Del:err")]
    /\ UNCHANGED <<store, cache, cfgRedis, ncalls, applied, gone, overlapped,
                   lastRet>>
    /\ UNCHANGED <<pipeVars, answered>>

\* What the history variables record when the call of p returns to its caller.
GoneAfter(p) ==
    LET f == call[p]
    IN  IF f.op \in UnregisterOps /\ f.err = "" /\ ~f.reReg
        THEN gone \cup {<<f.user, ChannelOf(f.op), f.arg>>}
        ELSE gone

LastRetAfter(p) ==
    [lastRet EXCEPT ![call[p].user] =
        IF call[p].op \in WriteOps /\ call[p].err = "" THEN "writeOK" ELSE "other"]

\* Mutant: the mobile unregister handler answers 500 when the registry returned an
\* error, as the web one does.
ResponseStatus_FailsHard(op, err) ==
    IF err # "" THEN 500 ELSE 204

\* The status a TokenAPI handler answers once its registry call returned: the three
\* handlers that check the error answer 500 on one, UnregisterFCM only logs it.
ResponseStatus(op, err) ==
    IF err # "" /\ op # "UnregisterFCM" THEN 500 ELSE 204

\* What the history of 204 answers records when the handler of p answers.
AnsweredAfter(p) ==
    LET f == call[p]
    IN  IF f.op \in UnregisterOps /\ ResponseStatus(f.op, f.err) = 204 /\ ~f.regSeen
        THEN answered \cup {<<f.user, ChannelOf(f.op), f.arg>>}
        ELSE answered

\* The registry call returns to the TokenAPI handler, which answers the request.
ClientReturn(p) ==
    /\ call[p].pc = "ret"
    /\ gone' = GoneAfter(p)
    /\ lastRet' = LastRetAfter(p)
    /\ answered' = IF call[p].op = "Fetch" THEN answered ELSE AnsweredAfter(p)
    /\ call' = [call EXCEPT ![p] = IdleCall]
    /\ UNCHANGED <<store, cache, cfgRedis, ncalls, nfaults, applied, overlapped>>
    /\ UNCHANGED pipeVars

\* The cache entry reaches its time-to-live and Redis drops it.
CacheExpire ==
    /\ \E key \in DOMAIN cache : cache' = RedisDel(cache, key)
    /\ UNCHANGED <<store, cfgRedis, call, ncalls, nfaults, applied, gone,
                   overlapped, lastRet>>
    /\ UNCHANGED <<pipeVars, answered>>

-----------------------------------------------------------------------------
(* The TokenAPI handlers: RegisterFCM, RegisterWeb, UnregisterFCM and        *)
(* UnregisterWeb take the identity from the request context, decode the body *)
(* and call the registry.                                                    *)

\* The zero value of urn.URN, which urn.Parse returns beside its error.
ZeroURN == "urn.URN{}"

\* urn.Parse, in the handlers and inside NotificationRequest.UnmarshalJSON: a user
\* URN string parses to its URN, any other string is an error.
urnParse(id) ==
    IF id \in Users THEN [urn |-> id, err |-> ""]
    ELSE [urn |-> ZeroURN, err |-> "invalid urn"]

\* The body is a JSON text when it is one JSON value and nothing else.
ValidJSON(body) == body.shape \in {"object", "mistyped"}

\* json.NewDecoder(r.Body).Decode(&req) reads the first JSON value of the body into
\* the request struct and leaves what follows it unread.  It fails on a body with no
\* complete value and on a member of the wrong type.
jsonDecode(body) ==
    IF /\ body.shape \in {"object", "trailing"}
       /\ DecodeString(body.Keys.P256dh).err = ""
       /\ DecodeString(body.Keys.Auth).err = ""
    THEN [err |-> "", Token |-> body.Token, Endpoint |-> body.Endpoint,
          Keys |-> UnmarshalKeys(body.Keys)]
    ELSE [err |-> "invalid json", Token |-> "", Endpoint |-> "", Keys |-> NoKeys]

\* The handler's answer before the registry is called (status 0: none, the registry
\* call goes ahead with the given arguments).
Reject(status) == [status |-> status, user |-> "", arg |-> "", keys |-> NoKeys]

Proceed(user, arg, keys) == [status |-> 0, user |-> user, arg |-> arg, keys |-> keys]

\* A handler up to its registry call: 401 without an identity in the context (the
\* error of urn.Parse is discarded), 400 on a body that does not decode, 400 on a
\* registration without token, endpoint or keys and on a web unregistration
\* without endpoint.  UnregisterFCM does not validate its token.
TokenAPIHandle(op, identity, body) ==
    IF ~identity.ok THEN Reject(401)
    ELSE LET userURN == urnParse(identity.id).urn
             req == jsonDecode(body)
         IN  IF req.err # "" THEN Reject(400)
             ELSE CASE op = "RegisterFCM" ->
                         IF req.Token = "" THEN Reject(400)
                         ELSE Proceed(userURN, req.Token, NoKeys)
                    [] op = "RegisterWeb" ->
                         IF req.Endpoint = "" \/ req.Keys.P256dh = "" \/ req.Keys.Auth = ""
                         THEN Reject(400)
                         ELSE Proceed(userURN, req.Endpoint, req.Keys)
                    [] op = "UnregisterFCM" -> Proceed(userURN, req.Token, NoKeys)
                    [] op = "UnregisterWeb" ->
                         IF req.Endpoint = "" THEN Reject(400)
                         ELSE Proceed(userURN, req.Endpoint, NoKeys)

\* An HTTP request reaches one of the four handlers.  A request the handler rejects
\* is answered without a registry call; any other one starts the registry call.
APIRequest(p, ops, identities, bodies) ==
    /\ ncalls < MaxCalls
    /\ call[p].pc = "idle"
    /\ \A q \in Clients : call[q].pc = "idle" => ClientRank(p) <= ClientRank(q)
    /\ \E op \in ops, identity \in identities, body \in bodies :
          LET h == TokenAPIHandle(op, identity, body)
          IN  IF h.status # 0
              THEN /\ call' = [call EXCEPT ![p] =
                          [IdleCall EXCEPT !.op = op, !.pc = "rejected",
                                           !.identity = identity, !.body = body,
                                           !.status = h.status]]
                   /\ UNCHANGED overlapped
              ELSE BeginCallWith(p, op, h.user, h.arg, h.keys, identity, body)
    /\ ncalls' = ncalls + 1
    /\ UNCHANGED <<store, cache, cfgRedis, nfaults, applied, gone, lastRet>>
    /\ UNCHANGED <<pipeVars, answered>>

\* The rejected request's response has been written and the handler returns.
APIRespond(p) ==
    /\ call[p].pc = "rejected"
    /\ call' = [call EXCEPT ![p] = IdleCall]
    /\ UNCHANGED <<store, cache, cfgRedis, ncalls, nfaults, applied, gone,
                   overlapped, lastRet>>
    /\ UNCHANGED <<pipeVars, answered>>

-----------------------------------------------------------------------------
(* The pipeline: NotificationRequestTransformer, the two dispatchers and the *)
(* processor built by NewProcessor, driven by the StreamingService workers   *)
(* on messages of a Pub/Sub subscription with a dead-letter policy.          *)

\* Mutant: the subscription is created without a dead-letter policy.
DeadLetterPolicy_Unset ==
    [DeadLetterTopic |-> "", MaxDeliveryAttempts |-> 0]

\* subConfig.DeadLetterPolicy of the ingestion subscription.
DeadLetterPolicy ==
    [DeadLetterTopic |-> "dlq", MaxDeliveryAttempts |-> MaxDeliveryAttempts]

\* Message data: the bytes of a JSON document, one element per lexical part.
CommandBytes(recipient) == <<"{", "\"recipient_id\":", recipient, "}">>

ValidCommand == CommandBytes(UserA)
TruncatedCommand == SubSeq(CommandBytes(UserA), 1, 3)
BadRecipientCommand == CommandBytes("bob")
Payloads == {ValidCommand, TruncatedCommand, BadRecipientCommand}
Undecodable == {TruncatedCommand, BadRecipientCommand}

\* Mutant: a payload that does not decode is passed on as a command for UserA.
NotificationRequestTransformer_Lenient(payload) ==
    IF /\ Len(payload) = 4
       /\ payload[1] = "{" /\ payload[2] = "\"recipient_id\":" /\ payload[4] = "}"
       /\ urnParse(payload[3]).err = ""
    THEN [req |-> EmptyRequest(urnParse(payload[3]).urn), skip |-> FALSE, err |-> ""]
    ELSE [req |-> EmptyRequest(UserA), skip |-> FALSE, err |-> ""]

\* Mutant: a payload that does not decode is skipped without an error.
NotificationRequestTransformer_SkipsSilently(payload) ==
    IF /\ Len(payload) = 4
       /\ payload[1] = "{" /\ payload[2] = "\"recipient_id\":" /\ payload[4] = "}"
       /\ urnParse(payload[3]).err = ""
    THEN [req |-> EmptyRequest(urnParse(payload[3]).urn), skip |-> FALSE, err |-> ""]
    ELSE [req |-> EmptyRequest(""), skip |-> TRUE, err |-> ""]

\* json.Unmarshal of the payload into a NotificationRequest: (request, skip, error).
NotificationRequestTransformer(payload) ==
    IF /\ Len(payload) = 4
       /\ payload[1] = "{" /\ payload[2] = "\"recipient_id\":" /\ payload[4] = "}"
       /\ urnParse(payload[3]).err = ""
    THEN [req |-> EmptyRequest(urnParse(payload[3]).urn), skip |-> FALSE, err |-> ""]
    ELSE [req |-> EmptyRequest(""), skip |-> TRUE, err |-> "unmarshal"]

\* A dispatcher's receipt: the format string and the numbers printed into it.
Receipt(text, counts) == [text |-> text, counts |-> counts]

\* What FCM answers to one multicast: the call fails as a whole (transport, or the
\* batch rejected as InvalidArgument), or there is one response per token.
FCMResponses == {"ok", "unregistered", "unavailable"}

FCMBehaviours(tokens) ==
    {[kind |-> "transport", responses |-> <<>>],
     [kind |-> "invalidArgument", responses |-> <<>>]}
        \cup {[kind |-> "batch", responses |-> r] :
                r \in [1..Len(tokens) -> FCMResponses]}

FCMFatal == {"unregistered", "invalidArgument"}

\* Is the provider failing in this behaviour (an outage, as opposed to a verdict).
FCMOutage(b) ==
    \/ b.kind = "transport"
    \/ b.kind = "batch" /\ \E i \in DOMAIN b.responses : b.responses[i] = "unavailable"

\* The tokens whose response is a fatal error, in batch order.
RECURSIVE InvalidTokens(_, _, _)
InvalidTokens(tokens, responses, idx) ==
    IF idx > Len(responses) THEN <<>>
    ELSE (IF responses[idx] \in FCMFatal THEN <<tokens[idx]>> ELSE <<>>)
            \o InvalidTokens(tokens, responses, idx + 1)

\* Mutant: a batch with retryable errors still returns its invalid tokens and no error.
fcmDispatch_SwallowsRetryable(tokens, b) ==
    IF tokens = <<>>
    THEN [receipt |-> Receipt("skipped: no tokens", <<>>), invalid |-> <<>>, err |-> "", sent |-> 0]
    ELSE IF b.kind = "invalidArgument"
    THEN [receipt |-> Receipt("skipped: invalid_argument", <<>>), invalid |-> <<>>, err |-> "", sent |-> 1]
    ELSE IF b.kind = "transport"
    THEN [receipt |-> Receipt("", <<>>), invalid |-> <<>>, err |-> "fcm transport failed", sent |-> 1]
    ELSE [receipt |-> Receipt("success:%d invalid:%d",
                                 <<Count(b.responses, "ok"),
                                   Len(InvalidTokens(tokens, b.responses, 1))>>),
          err |-> "", sent |-> 1,
          invalid |-> InvalidTokens(tokens, b.responses, 1)]

\* Mutant: a batch rejected as InvalidArgument is a transport failure like any other.
fcmDispatch_RetriesInvalidArgument(tokens, b) ==
    IF tokens = <<>>
    THEN [receipt |-> Receipt("skipped: no tokens", <<>>), invalid |-> <<>>, err |-> "", sent |-> 0]
    ELSE IF b.kind \in {"transport", "invalidArgument"}
    THEN [receipt |-> Receipt("", <<>>), invalid |-> <<>>, err |-> "fcm transport failed", sent |-> 1]
    ELSE LET retryableErrors ==
                 Cardinality({i \in DOMAIN b.responses :
                                 b.responses[i] \notin FCMFatal \cup {"ok"}})
         IN  IF retryableErrors > 0
             THEN [receipt |-> Receipt("", <<>>), invalid |-> <<>>, sent |-> 1,
                   err |-> "batch had retryable errors"]
             ELSE [receipt |-> Receipt("success:%d invalid:%d",
                                          <<Count(b.responses, "ok"),
                                            Len(InvalidTokens(tokens, b.responses, 1))>>),
                   err |-> "", sent |-> 1,
                   invalid |-> InvalidTokens(tokens, b.responses, 1)]

\* fcm.Dispatcher.Dispatch: (receipt, invalidTokens, error), and the number of calls
\* it made to the provider.
fcmDispatch(tokens, b) ==
    IF tokens = <<>>
    THEN [receipt |-> Receipt("skipped: no tokens", <<>>), invalid |-> <<>>, err |-> "", sent |-> 0]
    ELSE IF b.kind = "invalidArgument"
    THEN [receipt |-> Receipt("skipped: invalid_argument", <<>>), invalid |-> <<>>, err |-> "", sent |-> 1]
    ELSE IF b.kind = "transport"
    THEN [receipt |-> Receipt("", <<>>), invalid |-> <<>>, err |-> "fcm transport failed", sent |-> 1]
    ELSE LET retryableErrors ==
                 Cardinality({i \in DOMAIN b.responses :
                                 b.responses[i] \notin FCMFatal \cup {"ok"}})
         IN  IF retryableErrors > 0
             THEN [receipt |-> Receipt("", <<>>), invalid |-> <<>>, sent |-> 1,
                   err |-> "batch had retryable errors"]
             ELSE [receipt |-> Receipt("success:%d invalid:%d",
                                          <<Count(b.responses, "ok"),
                                            Len(InvalidTokens(tokens, b.responses, 1))>>),
                   err |-> "", sent |-> 1,
                   invalid |-> InvalidTokens(tokens, b.responses, 1)]

\* What client.Push returns for one token: an error (transport), a response that was
\* sent (status 200), or a response with a reason.
APNSOutcomes ==
    {"transport", "sent", "BadDeviceToken", "Unregistered", "DeviceTokenNotForTopic",
     "TopicDisallowed"}

\* The reasons that mark the token as dead.
APNSDead == {"BadDeviceToken", "Unregistered", "DeviceTokenNotForTopic"}

\* What the send loop of the APNS dispatcher has counted so far.
APNSLoopStart == [invalid |-> <<>>, success |-> 0, failure |-> 0, sent |-> 0, err |-> ""]

\* Mutant: a transport failure ends the loop and is returned as the error.
RECURSIVE apnsLoop_StopsOnTransport(_, _, _, _)
apnsLoop_StopsOnTransport(tokens, outcomes, idx, acc) ==
    IF idx > Len(tokens) THEN acc
    ELSE IF outcomes[idx] = "transport"
    THEN [acc EXCEPT !.failure = @ + 1, !.sent = @ + 1, !.err = "apns transport failed"]
    ELSE IF outcomes[idx] = "sent"
    THEN apnsLoop_StopsOnTransport(tokens, outcomes, idx + 1,
                  [acc EXCEPT !.success = @ + 1, !.sent = @ + 1])
    ELSE IF outcomes[idx] \in APNSDead
    THEN apnsLoop_StopsOnTransport(tokens, outcomes, idx + 1,
                  [acc EXCEPT !.failure = @ + 1, !.sent = @ + 1,
                              !.invalid = Append(@, tokens[idx])])
    ELSE apnsLoop_StopsOnTransport(tokens, outcomes, idx + 1,
                  [acc EXCEPT !.failure = @ + 1, !.sent = @ + 1])

\* The loop over the tokens: one Push per token; a transport error counts as a
\* failure and the loop continues; a response that was not sent counts as a failure
\* and, with one of the dead-token reasons, puts the token on the invalid list.
RECURSIVE apnsLoop(_, _, _, _)
apnsLoop(tokens, outcomes, idx, acc) ==
    IF idx > Len(tokens) THEN acc
    ELSE IF outcomes[idx] = "transport"
    THEN apnsLoop(tokens, outcomes, idx + 1,
                  [acc EXCEPT !.failure = @ + 1, !.sent = @ + 1])
    ELSE IF outcomes[idx] = "sent"
    THEN apnsLoop(tokens, outcomes, idx + 1,
                  [acc EXCEPT !.success = @ + 1, !.sent = @ + 1])
    ELSE IF outcomes[idx] \in APNSDead
    THEN apnsLoop(tokens, outcomes, idx + 1,
                  [acc EXCEPT !.failure = @ + 1, !.sent = @ + 1,
                              !.invalid = Append(@, tokens[idx])])
    ELSE apnsLoop(tokens, outcomes, idx + 1,
                  [acc EXCEPT !.failure = @ + 1, !.sent = @ + 1])

\* apns.Dispatcher.Dispatch: (receipt, invalidTokens, error), and the number of
\* pushes it made.
apnsDispatch(tokens, outcomes) ==
    IF tokens = <<>>
    THEN [receipt |-> Receipt("skipped: no tokens", <<>>), invalid |-> <<>>, err |-> "",
          sent |-> 0]
    ELSE LET acc == apnsLoop(tokens, outcomes, 1, APNSLoopStart)
         IN  [receipt |-> Receipt("success:%d invalid:%d total_fail:%d",
                                     <<acc.success, Len(acc.invalid), acc.failure>>),
              invalid |-> acc.invalid, err |-> acc.err, sent |-> acc.sent]

\* The HTTP status a push service answers for one subscription; 0 is a transport error.
WebStatuses == {201, 410, 500, 0}

WebBehaviours(subs) == [1..Len(subs) -> WebStatuses]

RECURSIVE InvalidSubs(_, _, _)
InvalidSubs(subs, statuses, idx) ==
    IF idx > Len(subs) THEN <<>>
    ELSE (IF statuses[idx] \in {410, 404} THEN <<subs[idx]>> ELSE <<>>)
            \o InvalidSubs(subs, statuses, idx + 1)

\* What the send loop has counted so far.
WebLoopStart == [invalid |-> <<>>, success |-> 0, failure |-> 0, sent |-> 0]

\* Mutant: every subscription that was not answered 201 is returned for clean-up.
RECURSIVE webSendLoop_PrunesEveryFailure(_, _, _, _)
webSendLoop_PrunesEveryFailure(subs, statuses, idx, acc) ==
    IF idx > Len(subs) THEN acc
    ELSE LET sent == [acc EXCEPT !.sent = @ + 1]
             next == IF statuses[idx] = 201
                     THEN [sent EXCEPT !.success = @ + 1]
                     ELSE [sent EXCEPT !.invalid = Append(@, subs[idx]),
                                       !.failure = @ + 1]
         IN  webSendLoop_PrunesEveryFailure(subs, statuses, idx + 1, next)

\* Mutant: the loop ends at the first transport error.
RECURSIVE webSendLoop_StopsOnTransportError(_, _, _, _)
webSendLoop_StopsOnTransportError(subs, statuses, idx, acc) ==
    IF idx > Len(subs) THEN acc
    ELSE LET sent == [acc EXCEPT !.sent = @ + 1]
         IN  IF statuses[idx] = 0 THEN [sent EXCEPT !.failure = @ + 1]
             ELSE webSendLoop_StopsOnTransportError(subs, statuses, idx + 1,
                    IF statuses[idx] = 201
                    THEN [sent EXCEPT !.success = @ + 1]
                    ELSE IF statuses[idx] \in {410, 404}
                    THEN [sent EXCEPT !.invalid = Append(@, subs[idx]),
                                      !.failure = @ + 1]
                    ELSE [sent EXCEPT !.failure = @ + 1])

\* The loop over the subscriptions: one SendNotification each; a transport error is
\* counted and the loop continues; 201 is a success, 410 and 404 return the
\* subscription for clean-up, any other status is only counted.
RECURSIVE webSendLoop(_, _, _, _)
webSendLoop(subs, statuses, idx, acc) ==
    IF idx > Len(subs) THEN acc
    ELSE LET sent == [acc EXCEPT !.sent = @ + 1]
             next == IF statuses[idx] = 0
                     THEN [sent EXCEPT !.failure = @ + 1]
                     ELSE IF statuses[idx] = 201
                     THEN [sent EXCEPT !.success = @ + 1]
                     ELSE IF statuses[idx] \in {410, 404}
                     THEN [sent EXCEPT !.invalid = Append(@, subs[idx]),
                                       !.failure = @ + 1]
                     ELSE [sent EXCEPT !.failure = @ + 1]
         IN  webSendLoop(subs, statuses, idx + 1, next)

\* web.Dispatcher.Dispatch: (receipt, invalidSubs, error), and the number of calls it
\* made to push services.  The payload is marshalled first and its error returned.
webDispatchPayload(subs, statuses, marshalErr) ==
    IF marshalErr
    THEN [receipt |-> Receipt("", <<>>), invalid |-> <<>>, err |-> "failed to marshal payload", sent |-> 0]
    ELSE LET acc == webSendLoop(subs, statuses, 1, WebLoopStart)
         IN  [receipt |-> Receipt("success:%d invalid:%d total_fail:%d",
                                  <<acc.success, Len(acc.invalid), acc.failure>>),
              invalid |-> acc.invalid, err |-> "", sent |-> acc.sent]

\* The dispatcher as the processor calls it: a title, a body and a map of strings
\* always marshal.
webDispatch(subs, statuses) == webDispatchPayload(subs, statuses, FALSE)

IdleFrame ==
    [pc |-> "idle", msg |-> "", user |-> "", req |-> EmptyRequest(""),
     invalid |-> <<>>, err |-> "", result |-> "", ret |-> "", fetchErr |-> "",
     handler |-> FALSE, sends |-> <<>>, invalids |-> <<>>, heals |-> <<>>,
     healErrs |-> <<>>,
     decoded |-> [req |-> EmptyRequest(""), skip |-> FALSE, err |-> ""],
     channel |-> "", receipt |-> Receipt("", <<>>), provider |-> 0, marshalErr |-> FALSE,
     fcmOutcome |-> [kind |-> "none", responses |-> <<>>], webOutcome |-> <<>>]

NoMessage == [data |-> <<>>, status |-> "absent", attempts |-> 0]

NewMessage(data) == [data |-> data, status |-> "pending", attempts |-> 0]

\* What the history variables record, and the worker's call frame, when the registry
\* call of worker w returns to the processor.
CallReturns(w) ==
    /\ call[w].pc = "ret"
    /\ gone' = GoneAfter(w)
    /\ lastRet' = LastRetAfter(w)
    /\ call' = [call EXCEPT ![w] = IdleCall]

\* Pub/Sub delivers a pending message to a free worker and counts the attempt.
\* Workers are interchangeable, so the message goes to the first one that is free.
Deliver(w, m) ==
    /\ bus[m].status = "pending"
    /\ \/ DeadLetterPolicy.DeadLetterTopic = ""
       \/ bus[m].attempts < DeadLetterPolicy.MaxDeliveryAttempts
    /\ hnd[w].pc = "idle"
    /\ \A v \in Workers : hnd[v].pc = "idle" => WorkerRank(w) <= WorkerRank(v)
    /\ bus' = [bus EXCEPT ![m].status = "delivered",
                          ![m].attempts = IF DeadLetterPolicy.DeadLetterTopic = ""
                                          THEN @ ELSE @ + 1]
    /\ hnd' = [hnd EXCEPT ![w] = [IdleFrame EXCEPT !.pc = "transform", !.msg = m]]
    /\ UNCHANGED <<regVars, svc, dlq, journal, outages>>

\* Pub/Sub forwards a message whose delivery attempts are used up to the dead-letter
\* topic, with the data it was published with.
DeadLetter(m) ==
    /\ bus[m].status = "pending"
    /\ DeadLetterPolicy.DeadLetterTopic # ""
    /\ bus[m].attempts >= DeadLetterPolicy.MaxDeliveryAttempts
    /\ dlq' = Append(dlq, [id |-> m, data |-> bus[m].data])
    /\ bus' = [bus EXCEPT ![m].status = "dead"]
    /\ UNCHANGED <<regVars, svc, hnd, journal, outages>>

\* The worker runs the transformer; it reports skip with an error, and the processor
\* is not called.
TransformSkip(w) ==
    /\ hnd[w].pc = "transform"
    /\ LET r == NotificationRequestTransformer(bus[hnd[w].msg].data)
       IN  /\ r.skip \/ r.err # ""
           /\ hnd' = [hnd EXCEPT ![w].pc = "done", ![w].decoded = r,
                                 ![w].result = IF r.err # "" THEN "err" ELSE "ok"]
    /\ UNCHANGED <<regVars, svc, bus, dlq, journal, outages>>

\* The transformer returns a request; the worker calls the processor, which begins
\* with tokenStore.Fetch of the recipient.
ProcessorStart(w) ==
    /\ hnd[w].pc = "transform"
    /\ LET r == NotificationRequestTransformer(bus[hnd[w].msg].data)
       IN  /\ ~r.skip /\ r.err = ""
           /\ hnd' = [hnd EXCEPT ![w].pc = "fetch", ![w].handler = TRUE,
                                 ![w].decoded = r,
                                 ![w].user = r.req.RecipientID]
           /\ BeginCall(w, "Fetch", r.req.RecipientID, "", NoKeys)
    /\ UNCHANGED <<store, cache, cfgRedis, ncalls, nfaults, applied, gone, lastRet,
                   answered, bus, dlq, journal, outages, svc>>

\* Mutant: a failed Fetch is taken for a recipient without devices.
FetchReturn_IgnoresError(w) ==
    /\ hnd[w].pc = "fetch"
    /\ CallReturns(w)
    /\ hnd' = [hnd EXCEPT ![w].pc = "fcm", ![w].fetchErr = call[w].err,
                          ![w].req = IF call[w].err # "" THEN EmptyRequest(hnd[w].user)
                                     ELSE call[w].res]
    /\ UNCHANGED <<store, cache, cfgRedis, ncalls, nfaults, applied, overlapped,
                   answered, bus, dlq, journal, outages, svc>>

\* tokenStore.Fetch returned: its error is the processor's error; otherwise the
\* processor goes on with the enriched request.
FetchReturn(w) ==
    /\ hnd[w].pc = "fetch"
    /\ CallReturns(w)
    /\ hnd' = IF call[w].err # ""
              THEN [hnd EXCEPT ![w].pc = "done", ![w].result = "err",
                               ![w].ret = call[w].err, ![w].fetchErr = call[w].err]
              ELSE [hnd EXCEPT ![w].pc = "fcm", ![w].req = call[w].res]
    /\ UNCHANGED <<store, cache, cfgRedis, ncalls, nfaults, applied, overlapped,
                   answered, bus, dlq, journal, outages, svc>>

\* Mutant: the FCM dispatcher is called whatever the size of the mobile bucket.
FCMPath_AlwaysDispatches(w) ==
    /\ hnd[w].pc = "fcm"
    /\ LET f == hnd[w]
           tokens == f.req.FCMTokens
       IN  \E b \in FCMBehaviours(tokens) :
              /\ FCMOutage(b) => outages > 0
              /\ outages' = IF FCMOutage(b) THEN outages - 1 ELSE outages
              /\ LET r == fcmDispatch(tokens, b)
                 IN  hnd' = [hnd EXCEPT
                        ![w].pc = "healfcm",
                        ![w].invalid = r.invalid,
                        ![w].err = r.err,
                        ![w].sends = Append(@, [channel |-> "fcm", to |-> tokens,
                                                 err |-> r.err # "",
                                                 rejected |-> tokens # <<>> /\
                                                     b.kind = "invalidArgument"]),
                        ![w].invalids = @ \o [i \in 1..Len(r.invalid) |->
                                                <<"fcm", r.invalid[i]>>]]
    /\ UNCHANGED <<regVars, svc, bus, dlq, journal>>

\* Path A: with a non-empty mobile bucket the FCM dispatcher is called and its invalid
\* tokens are queued for clean-up; with an empty one the path is skipped.
FCMPath(w) ==
    /\ hnd[w].pc = "fcm"
    /\ LET f == hnd[w]
           tokens == f.req.FCMTokens
       IN  IF Len(tokens) > 0
           THEN \E b \in FCMBehaviours(tokens) :
                   /\ FCMOutage(b) => outages > 0
                   /\ outages' = IF FCMOutage(b) THEN outages - 1 ELSE outages
                   /\ LET r == fcmDispatch(tokens, b)
                      IN  hnd' = [hnd EXCEPT
                             ![w].pc = "healfcm",
                             ![w].invalid = r.invalid,
                             ![w].err = r.err,
                             ![w].sends = Append(@, [channel |-> "fcm", to |-> tokens,
                                                      err |-> r.err # "",
                                                      rejected |-> b.kind = "invalidArgument"]),
                             ![w].invalids = @ \o [i \in 1..Len(r.invalid) |->
                                                     <<"fcm", r.invalid[i]>>]]
           ELSE /\ hnd' = [hnd EXCEPT ![w].pc = "web"]
                /\ UNCHANGED outages
    /\ UNCHANGED <<regVars, svc, bus, dlq, journal>>

\* Path B: with a non-empty web bucket the web dispatcher is called and its invalid
\* subscriptions are queued for clean-up; with an empty one the processor returns nil.
WebPath(w) ==
    /\ hnd[w].pc = "web"
    /\ LET f == hnd[w]
           subs == f.req.WebSubscriptions
       IN  IF Len(subs) > 0
           THEN \E statuses \in WebBehaviours(subs) :
                   LET r == webDispatch(subs, statuses)
                   IN  hnd' = [hnd EXCEPT
                          ![w].pc = "healweb",
                          ![w].invalid = r.invalid,
                          ![w].err = r.err,
                          ![w].sends = Append(@, [channel |-> "web",
                                                   to |-> WebEndpoints(f.req),
                                                   err |-> r.err # "",
                                                   rejected |-> FALSE]),
                          ![w].invalids = @ \o [i \in 1..Len(r.invalid) |->
                                                  <<"web", r.invalid[i].Endpoint>>]]
           ELSE hnd' = [hnd EXCEPT ![w].pc = "done", ![w].result = "ok"]
    /\ UNCHANGED <<regVars, svc, bus, dlq, journal, outages>>

\* What a dispatcher behind the Dispatcher interface can return for a bucket: any
\* leading part of the bucket as its invalid list, with or without an error.
StubOutcomes(bucket) ==
    [invalid : {SubSeq(bucket, 1, n) : n \in 0..Len(bucket)},
     err : {"", "dispatch failed"}]

\* Path A of the processor over a stub of the FCM dispatcher.
StubFCMPath(w) ==
    /\ hnd[w].pc = "fcm"
    /\ LET f == hnd[w]
           tokens == f.req.FCMTokens
       IN  IF Len(tokens) > 0
           THEN \E r \in StubOutcomes(tokens) :
                   /\ r.err # "" => outages > 0
                   /\ outages' = IF r.err # "" THEN outages - 1 ELSE outages
                   /\ hnd' = [hnd EXCEPT
                             ![w].pc = "healfcm",
                             ![w].invalid = r.invalid,
                             ![w].err = r.err,
                             ![w].sends = Append(@, [channel |-> "fcm", to |-> tokens,
                                                      err |-> r.err # "",
                                                      rejected |-> FALSE]),
                             ![w].invalids = @ \o [i \in 1..Len(r.invalid) |->
                                                     <<"fcm", r.invalid[i]>>]]
           ELSE /\ hnd' = [hnd EXCEPT ![w].pc = "web"]
                /\ UNCHANGED outages
    /\ UNCHANGED <<regVars, svc, bus, dlq, journal>>

\* Path B of the processor over a stub of the web dispatcher.
StubWebPath(w) ==
    /\ hnd[w].pc = "web"
    /\ LET f == hnd[w]
           subs == f.req.WebSubscriptions
       IN  IF Len(subs) > 0
           THEN \E r \in StubOutcomes(subs) :
                   /\ r.err # "" => outages > 0
                   /\ outages' = IF r.err # "" THEN outages - 1 ELSE outages
                   /\ hnd' = [hnd EXCEPT
                             ![w].pc = "healweb",
                             ![w].invalid = r.invalid,
                             ![w].err = r.err,
                             ![w].sends = Append(@, [channel |-> "web",
                                                      to |-> WebEndpoints(f.req),
                                                      err |-> r.err # "",
                                                      rejected |-> FALSE]),
                             ![w].invalids = @ \o [i \in 1..Len(r.invalid) |->
                                                     <<"web", r.invalid[i].Endpoint>>]]
           ELSE /\ hnd' = [hnd EXCEPT ![w].pc = "done", ![w].result = "ok"]
                /\ UNCHANGED outages
    /\ UNCHANGED <<regVars, svc, bus, dlq, journal>>

\* Mutant: the dispatcher's error is examined first, and with an error the invalid
\* list is dropped without an unregister call.
HealCall_ErrorFirst(w) ==
    /\ hnd[w].pc \in {"healfcm", "healweb"}
    /\ hnd[w].invalid # <<>>
    /\ LET f == hnd[w]
           op == IF f.pc = "healfcm" THEN "UnregisterFCM" ELSE "UnregisterWeb"
           arg == IF f.pc = "healfcm" THEN Head(f.invalid) ELSE Head(f.invalid).Endpoint
       IN  IF f.err # ""
           THEN /\ hnd' = [hnd EXCEPT ![w].invalid = << >>]
                /\ UNCHANGED <<call, overlapped>>
           ELSE /\ BeginCall(w, op, f.user, arg, NoKeys)
                /\ hnd' = [hnd EXCEPT ![w].heals = Append(@, <<ChannelOf(op), arg>>)]
    /\ UNCHANGED <<store, cache, cfgRedis, ncalls, nfaults, applied, gone, lastRet,
                   answered, bus, dlq, journal, outages, svc>>

\* Mutant: the clean-up unregisters the last device of the bucket, whatever the
\* dispatcher returned as invalid.
HealCall_LastOfBucket(w) ==
    /\ hnd[w].pc \in {"healfcm", "healweb"}
    /\ hnd[w].invalid # <<>>
    /\ LET f == hnd[w]
           op == IF f.pc = "healfcm" THEN "UnregisterFCM" ELSE "UnregisterWeb"
           arg == IF f.pc = "healfcm"
                  THEN f.req.FCMTokens[Len(f.req.FCMTokens)]
                  ELSE f.req.WebSubscriptions[Len(f.req.WebSubscriptions)].Endpoint
       IN  /\ BeginCall(w, op, f.user, arg, NoKeys)
           /\ hnd' = [hnd EXCEPT ![w].heals = Append(@, <<ChannelOf(op), arg>>)]
    /\ UNCHANGED <<store, cache, cfgRedis, ncalls, nfaults, applied, gone, lastRet,
                   answered, bus, dlq, journal, outages, svc>>

\* Self-healing: the processor calls the registry's unregister for the next invalid
\* token (by the token) or subscription (by its endpoint).
HealCall(w) ==
    /\ hnd[w].pc \in {"healfcm", "healweb"}
    /\ hnd[w].invalid # <<>>
    /\ LET f == hnd[w]
           op == IF f.pc = "healfcm" THEN "UnregisterFCM" ELSE "UnregisterWeb"
           arg == IF f.pc = "healfcm" THEN Head(f.invalid) ELSE Head(f.invalid).Endpoint
       IN  /\ BeginCall(w, op, f.user, arg, NoKeys)
           /\ hnd' = [hnd EXCEPT ![w].heals = Append(@, <<ChannelOf(op), arg>>)]
    /\ UNCHANGED <<store, cache, cfgRedis, ncalls, nfaults, applied, gone, lastRet,
                   answered, bus, dlq, journal, outages, svc>>

\* Mutant: an unregister that fails ends the clean-up loop and fails the processor.
HealReturn_StopsOnError(w) ==
    /\ hnd[w].pc \in {"healfcm", "healweb"}
    /\ CallReturns(w)
    /\ hnd' = IF call[w].err # ""
              THEN [hnd EXCEPT ![w].invalid = << >>, ![w].err = call[w].err,
                               ![w].healErrs = Append(@, call[w].err)]
              ELSE [hnd EXCEPT ![w].invalid = Tail(@),
                               ![w].healErrs = Append(@, call[w].err)]
    /\ UNCHANGED <<store, cache, cfgRedis, ncalls, nfaults, applied, overlapped,
                   answered, bus, dlq, journal, outages, svc>>

\* The unregister returned: its error is only logged, the loop goes to the next one.
HealReturn(w) ==
    /\ hnd[w].pc \in {"healfcm", "healweb"}
    /\ CallReturns(w)
    /\ hnd' = [hnd EXCEPT ![w].invalid = Tail(@),
                          ![w].healErrs = Append(@, call[w].err)]
    /\ UNCHANGED <<store, cache, cfgRedis, ncalls, nfaults, applied, overlapped,
                   answered, bus, dlq, journal, outages, svc>>

\* Mutant: the dispatcher's error is logged and the processor carries on.
PathEnd_SwallowsError(w) ==
    /\ hnd[w].pc \in {"healfcm", "healweb"}
    /\ hnd[w].invalid = <<>>
    /\ call[w].pc = "idle"
    /\ hnd' = IF hnd[w].pc = "healfcm"
              THEN [hnd EXCEPT ![w].pc = "web"]
              ELSE [hnd EXCEPT ![w].pc = "done", ![w].result = "ok"]
    /\ UNCHANGED <<regVars, svc, bus, dlq, journal, outages>>

\* After the clean-up loop of a path: the dispatcher's error, if any, is returned;
\* otherwise the FCM path is followed by the web path and the web path by return nil.
PathEnd(w) ==
    /\ hnd[w].pc \in {"healfcm", "healweb"}
    /\ hnd[w].invalid = <<>>
    /\ call[w].pc = "idle"
    /\ hnd' = IF hnd[w].err # ""
              THEN [hnd EXCEPT ![w].pc = "done", ![w].result = "err",
                               ![w].ret = hnd[w].err]
              ELSE IF hnd[w].pc = "healfcm"
                   THEN [hnd EXCEPT ![w].pc = "web"]
                   ELSE [hnd EXCEPT ![w].pc = "done", ![w].result = "ok"]
    /\ UNCHANGED <<regVars, svc, bus, dlq, journal, outages>>

\* The entry the history keeps of a finished delivery.
JournalEntry(f, outcome) ==
    [handler |-> f.handler, sends |-> f.sends, heals |-> f.heals,
     fetchErr |-> f.fetchErr, outcome |-> outcome]

\* The processor (or the transformer) returned no error: the worker acks the message.
Ack(w) ==
    /\ hnd[w].pc = "done"
    /\ hnd[w].result = "ok"
    /\ bus' = [bus EXCEPT ![hnd[w].msg].status = "acked"]
    /\ journal' = [journal EXCEPT ![hnd[w].msg] = Append(@, JournalEntry(hnd[w], "ack"))]
    /\ hnd' = [hnd EXCEPT ![w] = IdleFrame]
    /\ UNCHANGED <<regVars, svc, dlq, outages>>

\* The transformer or the processor returned an error: the worker nacks the message
\* and Pub/Sub will deliver it again.
Nack(w) ==
    /\ hnd[w].pc = "done"
    /\ hnd[w].result = "err"
    /\ bus' = [bus EXCEPT ![hnd[w].msg].status = "pending"]
    /\ journal' = [journal EXCEPT ![hnd[w].msg] = Append(@, JournalEntry(hnd[w], "nack"))]
    /\ hnd' = [hnd EXCEPT ![w] = IdleFrame]
    /\ UNCHANGED <<regVars, svc, dlq, outages>>

\* One request of the registry call a worker has in flight.
RegistryStep(w) ==
    \/ CacheGetHit(w)
    \/ CacheGetMiss(w)
    \/ CacheGetError(w)
    \/ StoreFetchOK(w)
    \/ StoreFetchError(w)
    \/ CacheSetOK(w)
    \/ CacheSetError(w)
    \/ StoreWriteOK(w)
    \/ StoreWriteError(w)
    \/ CacheDelOK(w)
    \/ CacheDelError(w)

\* One step of the processor or of the runtime around it.
HandlerStep(w) ==
    \/ TransformSkip(w)
    \/ ProcessorStart(w)
    \/ FetchReturn(w)
    \/ FCMPath(w)
    \/ WebPath(w)
    \/ HealCall(w)
    \/ HealReturn(w)
    \/ PathEnd(w)
    \/ Ack(w)
    \/ Nack(w)

-----------------------------------------------------------------------------
(* The bare FirestoreStore under concurrent API clients (Redis disabled) *)

\* Registries that already hold devices when the service starts.
SeededStores ==
    { << >>,
      RegisterFCM(<< >>, UserA, "e1", 0),
      RegisterWeb(<< >>, UserA, WebSub("e1", KeysA), 0) }

\* The user has a second device, e2, that no call of the run touches.
SeededCachedStores ==
    { RegisterFCM(<< >>, UserA, "e2", 0),
      RegisterFCM(RegisterFCM(<< >>, UserA, "e2", 0), UserA, "e1", 0),
      RegisterWeb(RegisterFCM(<< >>, UserA, "e2", 0), UserA, WebSub("e1", KeysA), 0) }

InitCommon ==
    /\ svc = ServingService
    /\ cache = << >>
    /\ call = [p \in Procs |-> IdleCall]
    /\ ncalls = 0
    /\ nfaults = 0
    /\ applied = [x \in Users \X Endpoints |-> << >>]
    /\ gone = {}
    /\ answered = {}
    /\ overlapped = {}
    /\ lastRet = [u \in Users |-> "none"]

\* No pipeline runs beside the API clients.
InitNoPipeline ==
    /\ bus = [m \in Msgs |-> NoMessage]
    /\ dlq = << >>
    /\ hnd = [w \in Workers |-> IdleFrame]
    /\ journal = [m \in Msgs |-> << >>]
    /\ outages = 0

InitStore ==
    /\ InitCommon
    /\ InitNoPipeline
    /\ store \in SeededStores
    /\ cfgRedis = FALSE

NextStore ==
    \/ \E p \in Clients :
          \/ ClientCall(p, {"RegisterFCM", "UnregisterFCM", "Fetch"}, {UserA},
                        Endpoints, {KeysB})
          \/ ClientCall(p, {"RegisterWeb", "UnregisterWeb"}, {UserA}, {"e1"}, {KeysB})
          \/ StoreFetchOK(p)
          \/ StoreFetchError(p)
          \/ StoreWriteOK(p)
          \/ StoreWriteError(p)
          \/ ClientReturn(p)

SpecStore == InitStore /\ [][NextStore]_vars

-----------------------------------------------------------------------------
(* The FirestoreStore over documents it did not write *)

\* Every value of a deviceRecord for the endpoint e1, whatever wrote it: each of the
\* two payload fields set or not, under either tag.
RecordSpace ==
    [Platform : {"fcm", "web"},
     Token : {"", "e1"},
     WebSubscription : {<< >>, <<WebSub("e1", KeysA)>>},
     UpdatedAt : {0}]

\* The user's collection is empty or holds one document, of any content.
ForeignStores ==
    { << >> } \cup
    { DocSet(<< >>, deviceRef(UserA, hashToken("e1")), rec) : rec \in RecordSpace }

InitRows ==
    /\ InitCommon
    /\ InitNoPipeline
    /\ store \in ForeignStores
    /\ cfgRedis = FALSE

NextRows ==
    \/ \E p \in Clients :
          \/ ClientCall(p, WriteOps \cup {"Fetch"}, {UserA}, {"e1"}, {KeysB})
          \/ StoreFetchOK(p)
          \/ StoreFetchError(p)
          \/ StoreWriteOK(p)
          \/ StoreWriteError(p)
          \/ ClientReturn(p)

SpecRows == InitRows /\ [][NextRows]_vars

-----------------------------------------------------------------------------
(* The CachedTokenStore over the FirestoreStore under concurrent callers *)

InitCache ==
    /\ InitCommon
    /\ InitNoPipeline
    /\ store \in SeededCachedStores
    /\ cfgRedis = TRUE

NextCache ==
    \/ \E p \in Clients :
          \/ ClientCall(p, WriteOps \cup {"Fetch"}, {UserA}, {"e1"}, {KeysB})
          \/ CacheGetHit(p)
          \/ CacheGetMiss(p)
          \/ CacheGetError(p)
          \/ StoreFetchOK(p)
          \/ StoreFetchError(p)
          \/ CacheSetOK(p)
          \/ CacheSetError(p)
          \/ StoreWriteOK(p)
          \/ StoreWriteError(p)
          \/ CacheDelOK(p)
          \/ CacheDelError(p)
          \/ ClientReturn(p)
    \/ CacheExpire

SpecCache == InitCache /\ [][NextCache]_vars

-----------------------------------------------------------------------------
(* Two users on one registry, with and without the cache *)

\* Both users have the mobile token e1 and a web subscription e2, under the same
\* strings; the cache starts empty and the calls of the run fill it.
TwoUserStore ==
    RegisterWeb(
        RegisterFCM(
            RegisterWeb(RegisterFCM(<< >>, UserA, "e1", 0), UserA, WebSub("e2", KeysA), 0),
            UserB, "e1", 0),
        UserB, WebSub("e2", KeysB), 0)

InitUsers ==
    /\ InitCommon
    /\ InitNoPipeline
    /\ store = TwoUserStore
    /\ cfgRedis \in BOOLEAN

NextUsers ==
    \/ \E p \in Clients :
          \/ ClientCall(p, WriteOps \cup {"Fetch"}, Users, {"e1"}, {KeysB})
          \/ CacheGetHit(p)
          \/ CacheGetMiss(p)
          \/ CacheGetError(p)
          \/ StoreFetchOK(p)
          \/ StoreFetchError(p)
          \/ CacheSetOK(p)
          \/ CacheSetError(p)
          \/ StoreWriteOK(p)
          \/ StoreWriteError(p)
          \/ CacheDelOK(p)
          \/ CacheDelError(p)
          \/ ClientReturn(p)
    \/ CacheExpire

SpecUsers == InitUsers /\ [][NextUsers]_vars

-----------------------------------------------------------------------------
(* The pipeline with two workers on the cached registry *)

\* The user's devices when the run begins: a mobile token and a web subscription,
\* two mobile tokens, a mobile token only, or none.
MobileAndWeb ==
    RegisterWeb(RegisterFCM(<< >>, UserA, "e1", 0), UserA, WebSub("e2", KeysA), 0)

TwoMobiles ==
    RegisterFCM(RegisterFCM(<< >>, UserA, "e1", 0), UserA, "e2", 0)

SeededDevices ==
    { MobileAndWeb, TwoMobiles, RegisterFCM(<< >>, UserA, "e1", 0), << >> }

InitPipelineCommon ==
    /\ InitCommon
    /\ cfgRedis = TRUE
    /\ hnd = [w \in Workers |-> IdleFrame]
    /\ dlq = << >>
    /\ journal = [m \in Msgs |-> << >>]

\* Two commands for the same user, or a command and a payload that does not decode;
\* the providers fail at most MaxOutages times.
InitPipeline ==
    /\ InitPipelineCommon
    /\ store \in SeededDevices
    /\ \E d \in {ValidCommand, TruncatedCommand} :
          bus = [m \in Msgs |-> IF m = "m1" THEN NewMessage(ValidCommand)
                                ELSE NewMessage(d)]
    /\ outages = MaxOutages

NextPipeline ==
    \/ \E w \in Workers, m \in Msgs : Deliver(w, m)
    \/ \E m \in Msgs : DeadLetter(m)
    \/ \E w \in Workers : RegistryStep(w)
    \/ \E w \in Workers : HandlerStep(w)
    \/ CacheExpire

SpecPipeline == InitPipeline /\ [][NextPipeline]_vars

-----------------------------------------------------------------------------
(* One command through the processor *)

\* One valid command for a user with any of the seeded devices, beside a payload that
\* does not decode; the providers fail at most MaxOutages times.
InitHandler ==
    /\ InitPipelineCommon
    /\ store \in SeededDevices
    /\ bus = [m \in Msgs |-> IF m = "m1" THEN NewMessage(ValidCommand)
                             ELSE NewMessage(TruncatedCommand)]
    /\ outages = MaxOutages

SpecHandler == InitHandler /\ [][NextPipeline]_vars

-----------------------------------------------------------------------------
(* The processor over stubs of the two dispatchers *)

\* One step of the processor, with the dispatchers replaced by stubs, or of the
\* runtime around it.
StubHandlerStep(w) ==
    \/ TransformSkip(w)
    \/ ProcessorStart(w)
    \/ FetchReturn(w)
    \/ StubFCMPath(w)
    \/ StubWebPath(w)
    \/ HealCall(w)
    \/ HealReturn(w)
    \/ PathEnd(w)
    \/ Ack(w)
    \/ Nack(w)

NextProcessor ==
    \/ \E w \in Workers, m \in Msgs : Deliver(w, m)
    \/ \E m \in Msgs : DeadLetter(m)
    \/ \E w \in Workers : RegistryStep(w)
    \/ \E w \in Workers : StubHandlerStep(w)
    \/ CacheExpire

\* One valid command for UserA, who has any of the seeded devices, beside a payload
\* that does not decode.  UserB has a mobile token of the same string, and an earlier
\* Fetch has left UserB's entry in the cache.
InitProcessor ==
    /\ svc = ServingService
    /\ call = [p \in Procs |-> IdleCall]
    /\ ncalls = 0
    /\ nfaults = 0
    /\ applied = [x \in Users \X Endpoints |-> << >>]
    /\ gone = {}
    /\ answered = {}
    /\ overlapped = {}
    /\ lastRet = [u \in Users |-> "none"]
    /\ cfgRedis = TRUE
    /\ hnd = [w \in Workers |-> IdleFrame]
    /\ dlq = << >>
    /\ journal = [m \in Msgs |-> << >>]
    /\ \E st \in SeededDevices : store = RegisterFCM(st, UserB, "e1", 0)
    /\ cache = RedisSet(<< >>, cacheKey(UserB), Fetch(store, UserB))
    /\ bus = [m \in Msgs |-> IF m = "m1" THEN NewMessage(ValidCommand)
                             ELSE NewMessage(TruncatedCommand)]
    /\ outages = MaxOutages

SpecProcessor == InitProcessor /\ [][NextProcessor]_vars

-----------------------------------------------------------------------------
(* The dispatchers on every batch *)

MaxBatch == 2

\* The endpoint lists a dispatcher is called with, the empty one included.
TokenLists == UNION {[1..n -> Endpoints] : n \in 0..MaxBatch}

SubLists == {[i \in 1..Len(t) |-> WebSub(t[i], KeysA)] : t \in TokenLists}

\* Per token FCM can also answer InvalidArgument, which is fatal like Unregistered.
FCMResponsesAll == FCMResponses \cup {"invalidArgument"}

FCMBehavioursAll(tokens) ==
    {[kind |-> "transport", responses |-> <<>>],
     [kind |-> "invalidArgument", responses |-> <<>>]}
        \cup {[kind |-> "batch", responses |-> r] :
                r \in [1..Len(tokens) -> FCMResponsesAll]}

\* A push service can also answer 404, and 200, which is a status other than 201.
WebStatusesAll == WebStatuses \cup {404, 200}

\* A caller invokes the FCM dispatcher with a list of tokens and gets its results.
FCMDispatchCall(w) ==
    /\ \A v \in Workers : hnd[v].pc = "idle" /\ WorkerRank(w) <= WorkerRank(v)
    /\ \E tokens \in TokenLists :
          \E b \in FCMBehavioursAll(tokens) :
             LET r == fcmDispatch(tokens, b)
             IN  hnd' = [hnd EXCEPT ![w] =
                    [IdleFrame EXCEPT
                        !.pc = "returned", !.channel = "fcm",
                        !.req = [EmptyRequest(UserA) EXCEPT !.FCMTokens = tokens],
                        !.fcmOutcome = b,
                        !.invalid = r.invalid, !.err = r.err,
                        !.receipt = r.receipt, !.provider = r.sent]]
    /\ UNCHANGED <<regVars, svc, bus, dlq, journal, outages>>

\* A caller invokes the web dispatcher with a list of subscriptions.
WebDispatchCall(w) ==
    /\ \A v \in Workers : hnd[v].pc = "idle" /\ WorkerRank(w) <= WorkerRank(v)
    /\ \E subs \in SubLists, marshalErr \in BOOLEAN :
          \E statuses \in [1..Len(subs) -> WebStatusesAll] :
             LET r == webDispatchPayload(subs, statuses, marshalErr)
             IN  hnd' = [hnd EXCEPT ![w] =
                    [IdleFrame EXCEPT
                        !.pc = "returned", !.channel = "web",
                        !.req = [EmptyRequest(UserA) EXCEPT !.WebSubscriptions = subs],
                        !.webOutcome = statuses, !.marshalErr = marshalErr,
                        !.invalid = r.invalid, !.err = r.err,
                        !.receipt = r.receipt, !.provider = r.sent]]
    /\ UNCHANGED <<regVars, svc, bus, dlq, journal, outages>>

\* The caller is done with the results.
DispatchDone(w) ==
    /\ hnd[w].pc = "returned"
    /\ hnd' = [hnd EXCEPT ![w] = IdleFrame]
    /\ UNCHANGED <<regVars, svc, bus, dlq, journal, outages>>

InitDispatch ==
    /\ InitCommon
    /\ InitNoPipeline
    /\ store = << >>
    /\ cfgRedis = FALSE

NextDispatch ==
    \E w \in Workers :
        \/ FCMDispatchCall(w)
        \/ WebDispatchCall(w)
        \/ DispatchDone(w)

SpecDispatch == InitDispatch /\ [][NextDispatch]_vars

-----------------------------------------------------------------------------
(* The APNS dispatcher on every batch *)

\* A caller invokes the APNS dispatcher with a list of tokens; the provider answers
\* each push in any of the ways it can.
APNSDispatchCall(w) ==
    /\ \A v \in Workers : hnd[v].pc = "idle" /\ WorkerRank(w) <= WorkerRank(v)
    /\ \E tokens \in TokenLists :
          \E outcomes \in [1..Len(tokens) -> APNSOutcomes] :
             LET r == apnsDispatch(tokens, outcomes)
             IN  hnd' = [hnd EXCEPT ![w] =
                    [IdleFrame EXCEPT
                        !.pc = "returned", !.channel = "apns",
                        !.req = [EmptyRequest(UserA) EXCEPT !.FCMTokens = tokens],
                        !.fcmOutcome = [kind |-> "apns", responses |-> outcomes],
                        !.invalid = r.invalid, !.err = r.err,
                        !.receipt = r.receipt, !.provider = r.sent]]
    /\ UNCHANGED <<regVars, svc, bus, dlq, journal, outages>>

NextAPNS ==
    \E w \in Workers :
        \/ APNSDispatchCall(w)
        \/ DispatchDone(w)

SpecAPNS == InitDispatch /\ [][NextAPNS]_vars

-----------------------------------------------------------------------------
(* The transformer on every payload *)

MaxPayloadLen == 4

\* The lexical parts a payload is made of.
JSONTokens == {"{", "}", "\"recipient_id\":", UserA, UserB, "bob"}

PayloadSpace == UNION {[1..n -> JSONTokens] : n \in 0..MaxPayloadLen}

\* A message with any payload and a valid command, each delivered to a worker that
\* runs the transformer on it.
InitTransformer ==
    /\ InitPipelineCommon
    /\ store = << >>
    /\ \E d \in PayloadSpace :
          bus = [m \in Msgs |-> IF m = "m1" THEN NewMessage(d)
                                ELSE NewMessage(ValidCommand)]
    /\ outages = 0

NextTransformer ==
    \/ \E w \in Workers, m \in Msgs : Deliver(w, m)
    \/ \E w \in Workers : TransformSkip(w)
    \/ \E w \in Workers : ProcessorStart(w)

SpecTransformer == InitTransformer /\ [][NextTransformer]_vars

-----------------------------------------------------------------------------
(* One message through the pipeline under fair scheduling *)

\* One message of any kind for a user with a mobile and a web device, alone or beside
\* a second message that does not decode; the providers may fail on every delivery.
InitDelivery ==
    /\ InitPipelineCommon
    /\ store = MobileAndWeb
    /\ \E d \in Payloads, x \in {NoMessage, NewMessage(TruncatedCommand)} :
          bus = [m \in Msgs |-> IF m = "m1" THEN NewMessage(d) ELSE x]
    /\ outages = MaxDeliveryAttempts

\* Pub/Sub keeps delivering and dead-lettering, and a worker that holds a message
\* keeps running: every request it makes is answered, with success or with an error.
FairDelivery ==
    /\ \A m \in Msgs : WF_vars(\E w \in Workers : Deliver(w, m))
    /\ \A m \in Msgs : WF_vars(DeadLetter(m))
    /\ \A w \in Workers : WF_vars(RegistryStep(w))
    /\ \A w \in Workers : WF_vars(HandlerStep(w))

SpecDelivery == InitDelivery /\ [][NextPipeline]_vars /\ FairDelivery

-----------------------------------------------------------------------------
(* The TokenAPI in front of the cached registry, one request at a time *)

\* The identities the middleware can leave in the context: none, a user URN, and a
\* handle that is no URN.
APIIdentities ==
    { NoIdentity, [ok |-> TRUE, id |-> UserA], [ok |-> TRUE, id |-> "bob"] }

\* Web keys with one of the two members empty.
KeysNoP256dh == [P256dh |-> "", Auth |-> "a2"]
KeysNoAuth == [P256dh |-> "p2", Auth |-> ""]

BodyShapes == {"object", "trailing", "truncated", "mistyped", "empty"}

\* Bodies sent to the mobile endpoints, to the web registration and to the web
\* unregistration.
FCMBodies ==
    {NoBody} \cup
    [shape : BodyShapes \ {"empty"}, Token : {"", "e1"}, Endpoint : {""},
     Keys : {NoKeys}]

WebBodies ==
    {NoBody} \cup
    [shape : BodyShapes \ {"empty"}, Token : {""}, Endpoint : {"", "e1"},
     Keys : {MarshalKeys(KeysB), MarshalKeys(KeysNoP256dh), MarshalKeys(KeysNoAuth)}]

UnregisterWebBodies ==
    {NoBody} \cup
    [shape : BodyShapes \ {"empty"}, Token : {""}, Endpoint : {"", "e1"},
     Keys : {NoKeys}]

\* The users and tokens a registry call of a handler can name.
Registrants == Users \cup {ZeroURN}
APITokens == Endpoints \cup {""}

InitAPI ==
    /\ svc = ServingService
    /\ cache = << >>
    /\ call = [p \in Procs |-> IdleCall]
    /\ ncalls = 0
    /\ nfaults = 0
    /\ applied = [x \in Registrants \X APITokens |-> << >>]
    /\ gone = {}
    /\ answered = {}
    /\ overlapped = {}
    /\ lastRet = [u \in Registrants |-> "none"]
    /\ InitNoPipeline
    /\ store \in { << >>, RegisterFCM(<< >>, UserA, "e1", 0) }
    /\ cfgRedis = TRUE

NextAPI ==
    \/ APIRequest("c1", {"RegisterFCM", "UnregisterFCM"}, APIIdentities, FCMBodies)
    \/ APIRequest("c1", {"RegisterWeb"}, APIIdentities, WebBodies)
    \/ APIRequest("c1", {"UnregisterWeb"}, APIIdentities, UnregisterWebBodies)
    \/ APIRespond("c1")
    \/ StoreWriteOK("c1")
    \/ StoreWriteError("c1")
    \/ CacheDelOK("c1")
    \/ CacheDelError("c1")
    \/ ClientReturn("c1")

SpecAPI == InitAPI /\ [][NextAPI]_vars

-----------------------------------------------------------------------------
(* Web registrations through the TokenAPI beside the pipeline *)

\* The key buffers the browser behind an endpoint holds; its registration carries
\* them as base64 text.
Supplied(endpoint) == IF endpoint = "e1" THEN KeysA ELSE KeysB

\* The registrations come with the identity of a user.
RoundTripIdentities == {i \in APIIdentities : i.ok /\ i.id \in Users}

\* The bodies of the registrations: the subscription of each endpoint.
RoundTripBodies ==
    {[shape |-> "object", Token |-> "", Endpoint |-> e,
      Keys |-> MarshalKeys(Supplied(e))] : e \in Endpoints}

\* Nothing is registered; two commands for UserA, or a command and a payload that
\* does not decode, are waiting for the one worker of the pipeline.
InitRoundTrip ==
    /\ InitPipelineCommon
    /\ store = << >>
    /\ \E d \in {ValidCommand, TruncatedCommand} :
          bus = [m \in Msgs |-> IF m = "m1" THEN NewMessage(ValidCommand)
                                ELSE NewMessage(d)]
    /\ outages = 0

NextRoundTrip ==
    \/ APIRequest("c1", {"RegisterWeb"}, RoundTripIdentities, RoundTripBodies)
    \/ StoreWriteOK("c1")
    \/ StoreWriteError("c1")
    \/ CacheDelOK("c1")
    \/ CacheDelError("c1")
    \/ ClientReturn("c1")
    \/ \E m \in Msgs : Deliver("w1", m)
    \/ \E m \in Msgs : DeadLetter(m)
    \/ RegistryStep("w1")
    \/ HandlerStep("w1")
    \/ CacheExpire

SpecRoundTrip == InitRoundTrip /\ [][NextRoundTrip]_vars

-----------------------------------------------------------------------------
(* Configuration: UpdateConfigWithEnvOverrides applies the environment to    *)
(* the Config loaded from YAML and validates the result.  The overrides of   *)
(* the Redis password and database, of the VAPID keys and of the CORS        *)
(* origins copy a non-empty value like PROJECT_ID does and are left out.     *)

\* strconv.Atoi on the values the environment holds.
Atoi(val) ==
    CASE val = "4"  -> [n |-> 4, err |-> ""]
      [] val = "0"  -> [n |-> 0, err |-> ""]
      [] val = "-1" -> [n |-> 0 - 1, err |-> ""]
      [] OTHER      -> [n |-> 0, err |-> "invalid syntax"]

\* strconv.ParseBool: false beside the error on a value that is no boolean.
ParseBool(val) ==
    CASE val \in {"1", "t", "T", "TRUE", "true", "True"} -> [b |-> TRUE, err |-> ""]
      [] val \in {"0", "f", "F", "FALSE", "false", "False"} -> [b |-> FALSE, err |-> ""]
      [] OTHER -> [b |-> FALSE, err |-> "invalid syntax"]

\* Step 1 of UpdateConfigWithEnvOverrides: each variable that is set and not empty
\* replaces its field; NUM_PIPELINE_WORKERS only when it is a positive integer.
ApplyEnv(cfg, env) ==
    [ProjectID |-> IF env.PROJECT_ID # "" THEN env.PROJECT_ID ELSE cfg.ProjectID,
     ListenAddr |-> IF env.PORT # "" THEN ":" \o env.PORT ELSE cfg.ListenAddr,
     SubscriptionID |->
        IF env.SUBSCRIPTION_ID # "" THEN env.SUBSCRIPTION_ID ELSE cfg.SubscriptionID,
     PubsubConsumerConfig |->
        IF env.SUBSCRIPTION_ID # "" THEN ConsumerDefaults(env.SUBSCRIPTION_ID)
        ELSE cfg.PubsubConsumerConfig,
     SubscriptionDLQTopicID |->
        IF env.SUBSCRIPTION_DLQ_TOPIC_ID # "" THEN env.SUBSCRIPTION_DLQ_TOPIC_ID
        ELSE cfg.SubscriptionDLQTopicID,
     NumPipelineWorkers |->
        IF /\ env.NUM_PIPELINE_WORKERS # ""
           /\ Atoi(env.NUM_PIPELINE_WORKERS).err = ""
           /\ Atoi(env.NUM_PIPELINE_WORKERS).n > 0
        THEN Atoi(env.NUM_PIPELINE_WORKERS).n
        ELSE cfg.NumPipelineWorkers,
     RedisAddr |-> IF env.REDIS_ADDR # "" THEN env.REDIS_ADDR ELSE cfg.RedisAddr,
     RedisEnabled |->
        IF env.REDIS_ENABLED # "" THEN ParseBool(env.REDIS_ENABLED).b
        ELSE IF env.REDIS_ADDR # "" THEN TRUE
        ELSE cfg.RedisEnabled]

\* Step 2: the defaults filled in once the required fields are present.
WithDefaults(cfg) ==
    [cfg EXCEPT
        !.ListenAddr = IF @ = "" THEN ":8080" ELSE @,
        !.NumPipelineWorkers = IF @ <= 0 THEN 1 ELSE @,
        !.PubsubConsumerConfig =
            IF ~@.set /\ cfg.SubscriptionID # "" THEN ConsumerDefaults(cfg.SubscriptionID)
            ELSE @]

\* Mutant: the result is returned without the final validation.
UpdateConfigWithEnvOverrides_Unvalidated(cfg, env) ==
    [cfg |-> WithDefaults(ApplyEnv(cfg, env)), isNil |-> FALSE, err |-> ""]

\* UpdateConfigWithEnvOverrides: (nil, error) without a project id or a subscription
\* id, else the overridden Config with its defaults.
UpdateConfigWithEnvOverrides(cfg, env) ==
    LET c == ApplyEnv(cfg, env)
    IN  IF c.ProjectID = ""
        THEN [cfg |-> c, isNil |-> TRUE, err |-> "project_id is required"]
        ELSE IF c.SubscriptionID = ""
        THEN [cfg |-> c, isNil |-> TRUE, err |-> "subscription_id is required"]
        ELSE [cfg |-> WithDefaults(c), isNil |-> FALSE, err |-> ""]

\* The Configs a YAML file can give and the environments the process can run in.
YamlConfigs ==
    { c \in [ProjectID : {"", "base-project"}, ListenAddr : {"", ":7070"},
             SubscriptionID : {"", "base-sub"}, SubscriptionDLQTopicID : {"", "base-dlq"},
             NumPipelineWorkers : {0 - 1, 0, 2}, RedisEnabled : BOOLEAN,
             RedisAddr : {"redis:6379"},
             PubsubConsumerConfig : {NilConsumerConfig, ConsumerDefaults("base-sub")}] :
        c.PubsubConsumerConfig.set => c.SubscriptionID = "base-sub" }

Environments ==
    [PROJECT_ID : {"", "env-project"}, PORT : {"", "9090"},
     SUBSCRIPTION_ID : {"", "env-sub"}, SUBSCRIPTION_DLQ_TOPIC_ID : {"", "env-dlq"},
     NUM_PIPELINE_WORKERS : {"", "4", "0", "abc"},
     REDIS_ADDR : {"", "cache:6379"}, REDIS_ENABLED : {"", "true", "false"}]

\* main calls UpdateConfigWithEnvOverrides on the loaded Config; the Config it
\* returns is the one the service is built from.
LoadConfig ==
    /\ svc.pc = "config"
    /\ LET r == UpdateConfigWithEnvOverrides(svc.yaml, svc.env)
       IN  svc' = [svc EXCEPT !.pc = IF r.err = "" THEN "new" ELSE "configFailed",
                              !.cfg = r.cfg, !.cfgErr = r.err]
    /\ UNCHANGED <<regVars, bus, dlq, hnd, journal, outages>>

InitConfig ==
    /\ \E y \in YamlConfigs, e \in Environments :
          svc = [NewService EXCEPT !.pc = "config", !.yaml = y, !.env = e, !.cfg = y]
    /\ cache = << >>
    /\ call = [p \in Procs |-> IdleCall]
    /\ ncalls = 0
    /\ nfaults = 0
    /\ applied = [x \in Users \X Endpoints |-> << >>]
    /\ gone = {}
    /\ answered = {}
    /\ overlapped = {}
    /\ lastRet = [u \in Users |-> "none"]
    /\ InitNoPipeline
    /\ store = << >>
    /\ cfgRedis = FALSE

SpecConfig == InitConfig /\ [][LoadConfig]_vars

-----------------------------------------------------------------------------
(* The service Wrapper: Start and Shutdown around the pipeline and the HTTP  *)
(* server of the BaseServer                                                  *)

SvcCalled(what) == svc.trace \o <<what>>

\* Wrapper.Start: pipelineService.Start returned nil.
PipelineStartOK ==
    /\ svc.pc = "new"
    /\ svc' = [svc EXCEPT !.pc = "started", !.pipeline = "running",
                          !.trace = SvcCalled("pipelineService.Start:ok")]
    /\ UNCHANGED <<regVars, bus, dlq, hnd, journal, outages>>

\* Mutant: Start logs the pipeline's error and goes on to publish readiness.
PipelineStartError_CarriesOn ==
    /\ svc.pc = "new"
    /\ svc' = [svc EXCEPT !.pc = "started", !.pipeline = "failed",
                          !.trace = SvcCalled("pipelineService.Start:err")]
    /\ UNCHANGED <<regVars, bus, dlq, hnd, journal, outages>>

\* Wrapper.Start: pipelineService.Start returned an error, which Start wraps and
\* returns.
PipelineStartError ==
    /\ svc.pc = "new"
    /\ svc' = [svc EXCEPT !.pc = "startFailed", !.pipeline = "failed",
                          !.startRet = "failed to start processing service",
                          !.trace = SvcCalled("pipelineService.Start:err")]
    /\ UNCHANGED <<regVars, bus, dlq, hnd, journal, outages>>

\* Wrapper.Start: w.SetReady(true).
SetReady ==
    /\ svc.pc = "started"
    /\ svc' = [svc EXCEPT !.pc = "ready", !.ready = TRUE,
                          !.trace = SvcCalled("SetReady(true)")]
    /\ UNCHANGED <<regVars, bus, dlq, hnd, journal, outages>>

\* Wrapper.Start: w.BaseServer.Start() listens and serves until Shutdown.
BaseServerStartOK ==
    /\ svc.pc = "ready"
    /\ svc' = [svc EXCEPT !.pc = "serving", !.http = "listening",
                          !.trace = SvcCalled("BaseServer.Start")]
    /\ UNCHANGED <<regVars, bus, dlq, hnd, journal, outages>>

\* Wrapper.Start: w.BaseServer.Start() cannot listen and returns its error.
BaseServerStartError ==
    /\ svc.pc = "ready"
    /\ svc' = [svc EXCEPT !.pc = "startFailed", !.http = "failed",
                          !.startRet = "http server failed",
                          !.trace = SvcCalled("BaseServer.Start")]
    /\ UNCHANGED <<regVars, bus, dlq, hnd, journal, outages>>

\* Wrapper.Shutdown: pipelineService.Stop returned nil.
PipelineStopOK ==
    /\ svc.pc = "serving"
    /\ svc' = [svc EXCEPT !.pc = "stopHTTP", !.pipeline = "stopped",
                          !.trace = SvcCalled("pipelineService.Stop:ok")]
    /\ UNCHANGED <<regVars, bus, dlq, hnd, journal, outages>>

\* Mutant: Shutdown returns the pipeline's error at once.
PipelineStopError_Returns ==
    /\ svc.pc = "serving"
    /\ svc' = [svc EXCEPT !.pc = "down", !.pipeline = "stopFailed",
                          !.finalErr = "pipeline",
                          !.trace = SvcCalled("pipelineService.Stop:err")]
    /\ UNCHANGED <<regVars, bus, dlq, hnd, journal, outages>>

\* Wrapper.Shutdown: pipelineService.Stop returned an error, which is logged and
\* kept in finalErr.
PipelineStopError ==
    /\ svc.pc = "serving"
    /\ svc' = [svc EXCEPT !.pc = "stopHTTP", !.pipeline = "stopFailed",
                          !.finalErr = "pipeline",
                          !.trace = SvcCalled("pipelineService.Stop:err")]
    /\ UNCHANGED <<regVars, bus, dlq, hnd, journal, outages>>

\* Wrapper.Shutdown: BaseServer.Shutdown returned nil; Shutdown returns finalErr.
HTTPShutdownOK ==
    /\ svc.pc = "stopHTTP"
    /\ svc' = [svc EXCEPT !.pc = "down", !.http = "closed",
                          !.trace = SvcCalled("BaseServer.Shutdown:ok")]
    /\ UNCHANGED <<regVars, bus, dlq, hnd, journal, outages>>

\* Wrapper.Shutdown: BaseServer.Shutdown returned an error, which replaces what
\* finalErr held.
HTTPShutdownError ==
    /\ svc.pc = "stopHTTP"
    /\ svc' = [svc EXCEPT !.pc = "down", !.http = "closed", !.finalErr = "http",
                          !.trace = SvcCalled("BaseServer.Shutdown:err")]
    /\ UNCHANGED <<regVars, bus, dlq, hnd, journal, outages>>

\* The workers of the StreamingService run from pipelineService.Start to
\* pipelineService.Stop.
PipelineRunning == svc.pipeline = "running"

\* The service is built over a user with a mobile token and a web subscription; a
\* command for that user and a payload that does not decode wait on the subscription.
InitService ==
    /\ svc = NewService
    /\ cache = << >>
    /\ call = [p \in Procs |-> IdleCall]
    /\ ncalls = 0
    /\ nfaults = 0
    /\ applied = [x \in Users \X Endpoints |-> << >>]
    /\ gone = {}
    /\ answered = {}
    /\ overlapped = {}
    /\ lastRet = [u \in Users |-> "none"]
    /\ cfgRedis = TRUE
    /\ hnd = [w \in Workers |-> IdleFrame]
    /\ dlq = << >>
    /\ journal = [m \in Msgs |-> << >>]
    /\ store = MobileAndWeb
    /\ bus = [m \in Msgs |-> IF m = "m1" THEN NewMessage(ValidCommand)
                             ELSE NewMessage(TruncatedCommand)]
    /\ outages = MaxOutages

NextService ==
    \/ PipelineStartOK
    \/ PipelineStartError
    \/ SetReady
    \/ BaseServerStartOK
    \/ BaseServerStartError
    \/ PipelineStopOK
    \/ PipelineStopError
    \/ HTTPShutdownOK
    \/ HTTPShutdownError
    \/ PipelineRunning /\ \E w \in Workers, m \in Msgs : Deliver(w, m)
    \/ PipelineRunning /\ \E m \in Msgs : DeadLetter(m)
    \/ PipelineRunning /\ \E w \in Workers : RegistryStep(w)
    \/ PipelineRunning /\ \E w \in Workers : HandlerStep(w)
    \/ PipelineRunning /\ CacheExpire

SpecService == InitService /\ [][NextService]_vars

-----------------------------------------------------------------------------
(* Claims about the registry and its cache *)

Last(s) == s[Len(s)]

Quiet(user) == InFlight(user) = {}

\* The store write applied last to the endpoint, "none" before the first one.
lastWrite(user, e) ==
    IF applied[<<user, e>>] = << >> THEN "none" ELSE Last(applied[<<user, e>>])

\* The rows of the user's collection that hold the endpoint, in either channel.
RowsOf(user, e) ==
    {ref \in DOMAIN store :
        /\ SubSeq(ref, 1, 3) = devicesCollection(user)
        /\ \/ store[ref].Token = e
           \/ /\ store[ref].WebSubscription # <<>>
              /\ store[ref].WebSubscription[1].Endpoint = e}

\* C1: once an unregister of an endpoint has returned success, a Fetch of that user
\* started afterwards does not return the endpoint, unless it was registered again:
\* no entry an older, overlapping Fetch wrote to the cache is served.
C1_NoStaleFetchAfterWrite ==
    \A p \in Procs :
        (call[p].op = "Fetch" /\ call[p].pc = "ret" /\ call[p].err = "")
            => Devices(call[p].res) \cap call[p].mustNotSee = {}

\* C7 (state part): when the writes to a user were applied one after another, the
\* endpoint is in Fetch exactly once, in its channel, if the last write applied to it
\* was a register, and is absent if the last write applied to it was an unregister.
C7_LastOperationState ==
    \A u \in Users, e \in Endpoints :
        (u \notin overlapped /\ Quiet(u)) =>
            LET req == Fetch(store, u)
                last == lastWrite(u, e)
            IN  /\ last = "RegisterFCM" => Count(req.FCMTokens, e) = 1
                /\ last = "UnregisterFCM" => Count(req.FCMTokens, e) = 0
                /\ last = "RegisterWeb" => Count(WebEndpoints(req), e) = 1
                /\ last = "UnregisterWeb" => Count(WebEndpoints(req), e) = 0

\* C7 (step part): an unregister of an endpoint that has no row, when it returns
\* success, has left the store as it was.
C7_UnregisterAbsentStep ==
    \A p \in Procs :
        (/\ call[p].pc = "write"
         /\ call[p].op \in UnregisterOps
         /\ RowsOf(call[p].user, call[p].arg) = {}
         /\ call'[p].pc = "ret"
         /\ call'[p].err = "")
            => store' = store

\* C7: a sequence of register/unregister operations on one (user, endpoint) leaves
\* the registry in the state of the last operation, and unregistering an endpoint
\* that is not registered succeeds and changes nothing.
C7_ConvergesToLastOperation ==
    []C7_LastOperationState /\ [][C7_UnregisterAbsentStep]_vars

\* A register of e1, an unregister of e1 and a second unregister of e1, which by then
\* has no row, ran one after another, and e1 is absent.
C7_Witness ==
    /\ UserA \notin overlapped
    /\ Quiet(UserA)
    /\ ncalls = 3
    /\ nfaults = 0
    /\ applied[<<UserA, "e1">>] = <<"RegisterFCM", "UnregisterFCM", "UnregisterFCM">>
    /\ RowsOf(UserA, "e1") = {}

\* C8: under concurrent register and unregister calls the registry never holds more
\* than one row for an endpoint, and once all calls have returned the endpoint is
\* present exactly if the store write applied last to it was a register.
C8_LastWriterWins ==
    \A u \in Users, e \in Endpoints :
        /\ Cardinality(RowsOf(u, e)) <= 1
        /\ (\A p \in Procs : call[p].pc \in {"idle", "ret"}) =>
              /\ lastWrite(u, e) \in RegisterOps =>
                    <<ChannelOf(lastWrite(u, e)), e>> \in Devices(Fetch(store, u))
              /\ lastWrite(u, e) \in UnregisterOps => RowsOf(u, e) = {}

\* A register and an unregister of the same endpoint overlapped and both returned
\* success.
C8_Witness ==
    /\ UserA \in overlapped
    /\ call["c1"].pc = "ret" /\ call["c2"].pc = "ret"
    /\ call["c1"].err = "" /\ call["c2"].err = ""
    /\ call["c1"].arg = "e1" /\ call["c2"].arg = "e1"
    /\ call["c1"].op = "RegisterFCM" /\ call["c2"].op = "UnregisterFCM"
    /\ lastWrite(UserA, "e1") = "RegisterFCM"

\* C9 (state part): with no overlapping calls for the user, after a write returned
\* success the cache holds no entry for the user, and the Fetch that follows does not
\* hit the cache and returns the store's current state.
C9_MissAfterWriteState ==
    \A u \in Users :
        u \notin overlapped =>
            /\ (Quiet(u) /\ lastRet[u] = "writeOK") => cacheKey(u) \notin DOMAIN cache
            /\ \A p \in InFlight(u) :
                  (call[p].op = "Fetch" /\ call[p].afterWrite) =>
                      /\ call[p].trace # <<>> => call[p].trace[1] # "cache.Get:hit"
                      /\ Len(call[p].trace) >= 2 =>
                            call[p].trace[2] \in {"store.Fetch:ok", "store.Fetch:err"}
                      /\ (call[p].pc = "ret" /\ call[p].err = "") =>
                            call[p].res = Fetch(store, u)

\* C9 (step part): the cache-set of that Fetch stores the state it read.
C9_RepopulateStep ==
    \A p \in Procs :
        (/\ call[p].pc = "set"
         /\ call[p].afterWrite
         /\ call[p].user \notin overlapped
         /\ call'[p].pc = "ret"
         /\ Last(call'[p].trace) = "cache.Set:ok")
            => /\ cacheKey(call[p].user) \in DOMAIN cache'
               /\ jsonUnmarshal(cache'[cacheKey(call[p].user)])
                     = Fetch(store', call[p].user)

\* C9: without overlapping calls, a successful write leaves no cache entry for the
\* user; the next Fetch misses, reads the store, returns its current state and
\* re-populates the cache with it.
C9_NextFetchReadsStore ==
    []C9_MissAfterWriteState /\ [][C9_RepopulateStep]_vars

\* A Fetch filled the cache, an unregister removed e1, and the Fetch after it has
\* read the store and filled the cache again.
C9_Witness ==
    /\ UserA \notin overlapped
    /\ ncalls = 3
    /\ \E p \in Procs :
          /\ call[p].op = "Fetch"
          /\ call[p].afterWrite
          /\ call[p].pc = "ret"
          /\ call[p].trace = <<"cache.Get:miss", "store.Fetch:ok", "cache.Set:ok">>
          /\ call[p].res.FCMTokens = <<"e2">>
    /\ lastWrite(UserA, "e1") = "UnregisterFCM"
    /\ cacheKey(UserA) \in DOMAIN cache

\* C10: a write through the cached registry calls the wrapped store first and issues
\* the cache delete only after the store write succeeded; when the store write fails
\* its error is returned and no cache delete is issued.
C10_StoreBeforeInvalidate ==
    \A p \in Procs :
        call[p].op \in WriteOps =>
            LET t == call[p].trace
                ok == "store." \o call[p].op \o ":ok"
                failed == "store." \o call[p].op \o ":err"
            IN  /\ t # <<>> => t[1] \in {ok, failed}
                /\ \A i \in 1..Len(t) :
                      t[i] \in {"cache.Del:ok", "cache.Del:err"} => (i = 2 /\ t[1] = ok)
                /\ Len(t) <= 2
                /\ call[p].pc = "ret" =>
                      /\ t[1] = failed => (t = <<failed>> /\ call[p].err = "store")
                      /\ t[1] = ok => Len(t) = 2

\* One write has returned after store write and cache delete, another has returned
\* the error of its store write.
C10_Witness ==
    /\ call["c1"].pc = "ret"
    /\ call["c1"].trace = <<"store.RegisterWeb:ok", "cache.Del:ok">>
    /\ call["c2"].pc = "ret"
    /\ call["c2"].trace = <<"store.UnregisterFCM:err">>
    /\ call["c2"].err = "store"

-----------------------------------------------------------------------------
(* Claims about the pipeline *)

\* The dispatcher invocations of one channel in a list of sends.
SendsOf(sends, channel) == SelectSeq(sends, LAMBDA x : x.channel = channel)

AnyError(sends) == \E i \in 1..Len(sends) : sends[i].err

\* C2: a handler invocation whose Fetch returned a non-empty mobile and a non-empty
\* web bucket has invoked both dispatchers when it returns, also after an error of
\* the mobile dispatcher, and returns an error exactly if one of them returned one.
C2_BothChannelsAttempted ==
    \A w \in Workers :
        (/\ hnd[w].pc = "done"
         /\ Len(hnd[w].req.FCMTokens) > 0
         /\ Len(hnd[w].req.WebSubscriptions) > 0)
            => /\ SendsOf(hnd[w].sends, "fcm") # << >>
               /\ SendsOf(hnd[w].sends, "web") # << >>
               /\ (hnd[w].result = "err") <=> AnyError(hnd[w].sends)

\* C3: when a handler invocation returns, it has called the matching unregister
\* exactly once for every endpoint a dispatcher returned as invalid; and a Fetch
\* started after such an unregister returned success does not return the endpoint.
C3_InvalidEndpointPruned ==
    /\ \A w \in Workers :
          hnd[w].pc = "done" =>
             \A i \in 1..Len(hnd[w].invalids) :
                Count(hnd[w].heals, hnd[w].invalids[i]) = 1
    /\ \A w \in Workers :
          (call[w].op = "Fetch" /\ call[w].pc = "ret" /\ call[w].err = "")
             => Devices(call[w].res) \cap call[w].mustNotSee = {}

\* The deliveries of a message that have been acked or nacked, and the one in hand.
HandlerRuns(m) ==
    Cardinality({i \in 1..Len(journal[m]) : journal[m][i].handler})
        + Cardinality({w \in Workers : hnd[w].msg = m /\ hnd[w].handler})

DeadLetters(m) == SelectSeq(dlq, LAMBDA x : x.id = m)

\* C4 (state part): a message whose payload does not decode is never acked; each of
\* its deliveries ends in a nack without the processor, a dispatcher or a registry
\* write; it is on the dead-letter topic only after MaxDeliveryAttempts nacks, once,
\* with the data it was published with.
C4_PoisonState ==
    \A m \in Msgs :
        bus[m].data \in Undecodable =>
            /\ bus[m].status # "acked"
            /\ \A i \in 1..Len(journal[m]) :
                  /\ journal[m][i].outcome = "nack"
                  /\ ~journal[m][i].handler
                  /\ journal[m][i].sends = << >>
                  /\ journal[m][i].heals = << >>
            /\ \A w \in Workers :
                  hnd[w].msg = m =>
                     /\ hnd[w].sends = << >> /\ hnd[w].heals = << >>
                     /\ ~hnd[w].handler
                     /\ call[w].pc = "idle"
            /\ Len(journal[m]) =
                  bus[m].attempts - (IF bus[m].status = "delivered" THEN 1 ELSE 0)
            /\ IF bus[m].status = "dead"
               THEN /\ Len(journal[m]) = MaxDeliveryAttempts
                    /\ DeadLetters(m) = <<[id |-> m, data |-> bus[m].data]>>
               ELSE DeadLetters(m) = << >>

\* C4: a message whose payload cannot be decoded is nacked on each of its
\* MaxDeliveryAttempts deliveries and then appears on the dead-letter topic with the
\* same bytes; no dispatcher is invoked and the registry is not written for it.
C4_PoisonIsDeadLettered ==
    /\ []C4_PoisonState
    /\ \A m \in Msgs :
          (bus[m].data \in Undecodable) ~> (bus[m].status = "dead")

\* A truncated command has been delivered and nacked MaxDeliveryAttempts times and
\* is on the dead-letter topic.
C4_Witness ==
    /\ bus["m1"].data = TruncatedCommand
    /\ bus["m1"].status = "dead"
    /\ Len(journal["m1"]) = MaxDeliveryAttempts
    /\ dlq = <<[id |-> "m1", data |-> TruncatedCommand]>>

\* C5: a delivery in which a dispatcher returned an error is nacked; when the
\* dispatcher returns an error in the first delivery of a command and none in the
\* second, the second is acked, the handler has run exactly twice and the dispatcher
\* was invoked exactly twice, with the same token list.  (The failed first run writes
\* nothing to the registry, so the registry is unchanged in between.)
C5_RetryThenAck ==
    \A m \in Msgs :
        LET j == journal[m]
        IN  /\ \A i \in 1..Len(j) : AnyError(j[i].sends) => j[i].outcome = "nack"
            /\ (/\ Len(j) >= 2
                /\ AnyError(j[1].sends)
                /\ j[2].sends # << >>
                /\ ~AnyError(j[2].sends))
                  => /\ j[1].outcome = "nack"
                     /\ j[1].heals = << >>
                     /\ j[2].outcome = "ack"
                     /\ bus[m].status = "acked"
                     /\ Len(j) = 2
                     /\ HandlerRuns(m) = 2
                     /\ Len(SendsOf(j[1].sends \o j[2].sends, "fcm")) = 2
                     /\ j[1].sends[1].to = j[2].sends[1].to

\* The mobile dispatcher failed in the first delivery of m1 and succeeded in the
\* second, and m1 is acked.
C5_Witness ==
    /\ Len(journal["m1"]) = 2
    /\ Len(journal["m1"][2].sends) >= 1
    /\ journal["m1"][1].sends =
           <<[channel |-> "fcm", to |-> <<"e1">>, err |-> TRUE, rejected |-> FALSE]>>
    /\ journal["m1"][2].sends[1] =
           [channel |-> "fcm", to |-> <<"e1">>, err |-> FALSE, rejected |-> FALSE]
    /\ journal["m1"][2].outcome = "ack"
    /\ bus["m1"].status = "acked"

\* C6 (state part): no message has more than MaxDeliveryAttempts handler runs or
\* deliveries; an acked message is not on the dead-letter topic; a dead-lettered one,
\* decodable or not, is there once after MaxDeliveryAttempts nacks.
C6_TerminalState ==
    \A m \in Msgs :
        /\ HandlerRuns(m) <= MaxDeliveryAttempts
        /\ Len(journal[m]) <= MaxDeliveryAttempts
        /\ bus[m].status = "acked" =>
              /\ DeadLetters(m) = << >>
              /\ Last(journal[m]).outcome = "ack"
        /\ bus[m].status = "dead" =>
              /\ DeadLetters(m) = <<[id |-> m, data |-> bus[m].data]>>
              /\ Len(journal[m]) = MaxDeliveryAttempts
              /\ \A i \in 1..Len(journal[m]) : journal[m][i].outcome = "nack"
        /\ bus[m].status \notin {"acked", "dead"} => DeadLetters(m) = << >>

\* C6 (step part): acked and dead-lettered are final.
C6_TerminalStep ==
    \A m \in Msgs :
        bus[m].status \in {"acked", "dead"} =>
            /\ bus'[m] = bus[m]
            /\ journal'[m] = journal[m]

\* C6: with MaxDeliveryAttempts delivery attempts and fair redelivery, every message
\* ends either acked or dead-lettered, never both, after at most MaxDeliveryAttempts
\* handler runs; a valid command that fails on every attempt is dead-lettered like a
\* payload that does not decode.
C6_EveryMessageSettles ==
    /\ []C6_TerminalState
    /\ [][C6_TerminalStep]_vars
    /\ \A m \in Msgs :
          (bus[m].status = "pending") ~> (bus[m].status \in {"acked", "dead"})

\* A valid command whose handler failed in all MaxDeliveryAttempts deliveries is on
\* the dead-letter topic.
C6_Witness ==
    /\ bus["m1"].data = ValidCommand
    /\ bus["m1"].status = "dead"
    /\ Len(journal["m1"]) = MaxDeliveryAttempts
    /\ \A i \in 1..MaxDeliveryAttempts :
          journal["m1"][i].handler /\ journal["m1"][i].outcome = "nack"
    /\ dlq # << >>

-----------------------------------------------------------------------------
(* Claims about the error handling of the cached registry *)

\* C11 (state part): a cached write whose cache.Del failed returns the cache error,
\* after a store write that succeeded.
C11_DelErrorState ==
    \A p \in Procs :
        (call[p].pc = "ret" /\ call[p].trace # << >>
            /\ Last(call[p].trace) = "cache.Del:err")
            => /\ call[p].op \in WriteOps
               /\ call[p].err = "cache"
               /\ call[p].trace = <<"store." \o call[p].op \o ":ok", "cache.Del:err">>

\* C11 (step part): the step in which cache.Del fails leaves the store, with the
\* write applied, and the cache, with the user's entry if there is one, as they are.
C11_DelErrorStep ==
    \A p \in Procs :
        (/\ call[p].pc = "del"
         /\ call'[p].pc = "ret"
         /\ Last(call'[p].trace) = "cache.Del:err")
            => /\ store' = store
               /\ cache' = cache
               /\ call[p].op \in RegisterOps =>
                     <<ChannelOf(call[p].op), call[p].arg>>
                         \in Devices(Fetch(store, call[p].user)) \/ call[p].user \in overlapped
               /\ call[p].op \in UnregisterOps =>
                     RowsOf(call[p].user, call[p].arg) = {} \/ call[p].user \in overlapped

\* C11: when the store write succeeds and the cache delete fails, the cached write
\* returns the cache-delete error, the store keeps the new state and the cache entry
\* of the user is left in place.
C11_DelErrorIsReturned ==
    []C11_DelErrorState /\ [][C11_DelErrorStep]_vars

\* An unregister of e1 removed the row, its cache.Del failed, and the cache still
\* holds the entry with e1.
C11_Witness ==
    \E p \in Procs :
        /\ call[p].op = "UnregisterFCM" /\ call[p].arg = "e1"
        /\ call[p].pc = "ret" /\ call[p].err = "cache"
        /\ RowsOf(UserA, "e1") = {}
        /\ cacheKey(UserA) \in DOMAIN cache
        /\ <<"fcm", "e1">> \in Devices(jsonUnmarshal(cache[cacheKey(UserA)]))

\* The traces a Fetch of the cached registry can have made when it returns.
FetchTraces ==
    {<<"cache.Get:hit">>}
        \cup {<<g, "store.Fetch:ok", c>> :
                g \in {"cache.Get:miss", "cache.Get:err"},
                c \in {"cache.Set:ok", "cache.Set:err"}}
        \cup {<<g, "store.Fetch:err">> : g \in {"cache.Get:miss", "cache.Get:err"}}

\* C12 (state part): a Fetch that returns has either hit the cache and not called the
\* store, or missed (or failed to read) the cache and called the store; it fails
\* exactly if the store's Fetch failed, and then no cache.Set was issued.
C12_FetchState ==
    \A p \in Procs :
        (cfgRedis /\ call[p].op = "Fetch" /\ call[p].pc = "ret")
            => /\ call[p].trace \in FetchTraces
               /\ (call[p].err # "") <=> (Last(call[p].trace) = "store.Fetch:err")
               /\ call[p].err # "" => call[p].err = "store"

\* C12 (step part): a hit returns the cached value; the store's result is what the
\* call holds after the read, and the cache.Set, successful or not, leaves the result
\* and the nil error as they are.
C12_FetchStep ==
    \A p \in Procs :
        /\ (call[p].pc = "get" /\ call'[p].pc = "ret")
              => /\ cacheKey(call[p].user) \in DOMAIN cache
                 /\ call'[p].res = jsonUnmarshal(cache[cacheKey(call[p].user)])
                 /\ call'[p].err = ""
        /\ (call[p].pc = "read" /\ call'[p].pc = "set")
              => call'[p].res = Fetch(store, call[p].user)
        /\ (call[p].pc = "read" /\ call'[p].pc = "ret" /\ cfgRedis)
              => call'[p].err = "store" /\ cache' = cache
        /\ (call[p].pc = "set" /\ call'[p].pc = "ret")
              => /\ call'[p].res = call[p].res
                 /\ call'[p].err = ""

\* C12: Fetch of the cached registry returns the cached value on a hit without
\* calling the store; on a miss or a cache-get error it returns what the store's
\* Fetch returns, whether or not the cache-set succeeds; a store failure is returned
\* and no cache-set is issued.
C12_FetchDelegates ==
    []C12_FetchState /\ [][C12_FetchStep]_vars

\* A Fetch whose cache.Get failed has returned what the store holds.
C12_Witness ==
    \E p \in Procs :
        /\ call[p].op = "Fetch" /\ call[p].pc = "ret" /\ call[p].err = ""
        /\ call[p].trace = <<"cache.Get:err", "store.Fetch:ok", "cache.Set:ok">>
        /\ call[p].res = Fetch(store, UserA)
        /\ call[p].res.FCMTokens # << >>

\* C13: once an unregister request was answered 204, no Fetch of that user started
\* afterwards returns the endpoint, until it is registered again.
C13_NoFetchAfter204 ==
    \A p \in Procs :
        (call[p].op = "Fetch" /\ call[p].pc = "ret" /\ call[p].err = "")
            => Devices(call[p].res) \cap call[p].told = {}

-----------------------------------------------------------------------------
(* Claims about the processor *)

\* C14: a handler invocation whose registry Fetch failed returns that error without
\* a dispatcher call and without an unregister call, and its delivery is nacked and
\* the message is pending again.
C14_FetchErrorIsReturned ==
    /\ \A w \in Workers :
          (hnd[w].pc = "done" /\ hnd[w].fetchErr # "")
             => /\ hnd[w].result = "err"
                /\ hnd[w].ret = hnd[w].fetchErr
                /\ hnd[w].sends = << >>
                /\ hnd[w].heals = << >>
    /\ \A w \in Workers :
          (hnd[w].pc \notin {"idle", "transform", "fetch", "done"})
             => hnd[w].fetchErr = ""
    /\ \A m \in Msgs :
          \A i \in 1..Len(journal[m]) :
             journal[m][i].fetchErr # ""
                => /\ journal[m][i].outcome = "nack"
                   /\ journal[m][i].sends = << >>
                   /\ journal[m][i].heals = << >>

\* The store's Fetch failed in the first delivery of m1, which was nacked, and m1 is
\* in the hands of a worker again.
C14_Witness ==
    /\ Len(journal["m1"]) = 1
    /\ journal["m1"][1].fetchErr = "store"
    /\ journal["m1"][1].outcome = "nack"
    /\ bus["m1"].status = "delivered"
    /\ bus["m1"].attempts = 2

\* Has the invocation in this frame got a recipient from a successful Fetch.
Fetched(f) == f.handler /\ f.fetchErr = "" /\ f.pc \notin {"idle", "transform", "fetch"}

\* C15: a handler invocation whose Fetch returned two empty buckets returns success
\* without a dispatcher call and without a registry call of its own, and a dispatcher
\* is only ever called, once, with the non-empty bucket of its channel.
C15_EmptyRecipientDropped ==
    \A w \in Workers :
        Fetched(hnd[w]) =>
            LET f == hnd[w]
            IN  /\ (f.pc = "done" /\ f.req.FCMTokens = << >> /\ f.req.WebSubscriptions = << >>)
                       => /\ f.result = "ok" /\ f.ret = ""
                          /\ f.sends = << >>
                          /\ f.heals = << >>
                /\ \A i \in 1..Len(f.sends) :
                       /\ f.sends[i].to # << >>
                       /\ f.sends[i].to = IF f.sends[i].channel = "fcm"
                                          THEN f.req.FCMTokens
                                          ELSE WebEndpoints(f.req)
                /\ Len(SendsOf(f.sends, "fcm")) <= 1
                /\ Len(SendsOf(f.sends, "web")) <= 1
                /\ f.req.FCMTokens = << >> => SendsOf(f.sends, "fcm") = << >>
                /\ f.req.WebSubscriptions = << >> => SendsOf(f.sends, "web") = << >>

\* A worker is about to acknowledge a command whose recipient has no devices: the
\* Fetch succeeded with two empty buckets and nothing was sent or unregistered.
C15_Witness ==
    \E w \in Workers :
        /\ Fetched(hnd[w])
        /\ hnd[w].pc = "done"
        /\ hnd[w].req = EmptyRequest(UserA)
        /\ hnd[w].result = "ok"
        /\ hnd[w].sends = << >>
        /\ hnd[w].heals = << >>

\* C16: a handler invocation in which no dispatcher returned an error returns success
\* whatever its unregister calls returned, and it has called unregister for every
\* invalid endpoint, in order, also after one of these calls failed.
C16_HealingNeverFails ==
    \A w \in Workers :
        (Fetched(hnd[w]) /\ hnd[w].pc = "done" /\ ~AnyError(hnd[w].sends))
            => /\ hnd[w].result = "ok" /\ hnd[w].ret = ""
               /\ hnd[w].heals = hnd[w].invalids
               /\ Len(hnd[w].healErrs) = Len(hnd[w].heals)

\* FCM rejected both tokens of the user; the unregister of the first one failed, the
\* second one was unregistered all the same and the processor returned nil.
C16_Witness ==
    \E w \in Workers :
        /\ hnd[w].pc = "done"
        /\ hnd[w].result = "ok"
        /\ Len(hnd[w].heals) = 2
        /\ {hnd[w].heals[1], hnd[w].heals[2]} = {<<"fcm", "e1">>, <<"fcm", "e2">>}
        /\ hnd[w].healErrs[1] # ""
        /\ hnd[w].healErrs[2] = ""

-----------------------------------------------------------------------------
(* Claims about the transformer *)

\* Is the payload a JSON object with the recipient as its only member.
WellFormedJSON(payload) ==
    /\ Len(payload) = 4
    /\ payload[1] = "{"
    /\ payload[2] = "\"recipient_id\":"
    /\ payload[3] \notin {"{", "}", "\"recipient_id\":"}
    /\ payload[4] = "}"

\* C17: for a payload that is not well-formed JSON or whose recipient is not a user
\* URN the transformer returns no request, skip and an error; for any other payload
\* it returns the request of the recipient, no skip and no error.
C17_TransformerResult ==
    \A w \in Workers :
        hnd[w].pc \notin {"idle", "transform"} =>
            LET payload == bus[hnd[w].msg].data
                d == hnd[w].decoded
            IN  IF ~WellFormedJSON(payload) \/ payload[3] \notin Users
                THEN d.req = EmptyRequest("") /\ d.skip /\ d.err # ""
                ELSE d.req = EmptyRequest(payload[3]) /\ ~d.skip /\ d.err = ""

\* One worker has run the transformer on a well-formed payload whose recipient is
\* not a URN, the other one on a valid command.
C17_Witness ==
    /\ bus["m1"].data = BadRecipientCommand
    /\ \E w, v \in Workers :
          /\ hnd[w].msg = "m1" /\ hnd[w].pc = "done" /\ hnd[w].decoded.skip
          /\ hnd[v].msg = "m2" /\ hnd[v].pc = "fetch" /\ ~hnd[v].decoded.skip
          /\ hnd[v].decoded.req.RecipientID = UserA

-----------------------------------------------------------------------------
(* Claims about the FirestoreStore *)

\* C18 (state part): Fetch never returns a mobile token or a web endpoint twice.
C18_NoDuplicates ==
    \A u \in Users, e \in Endpoints :
        LET req == Fetch(store, u)
        IN  /\ Count(req.FCMTokens, e) <= 1
            /\ Count(WebEndpoints(req), e) <= 1

\* C18 (step part): when a register has written to the store, Fetch returns the token
\* exactly once, or exactly one subscription for the endpoint, with the keys of this
\* registration.
C18_UpsertStep ==
    \A p \in Procs :
        (/\ call[p].pc = "write"
         /\ call[p].op \in RegisterOps
         /\ call'[p].pc = "ret"
         /\ call'[p].err = "")
            => LET f == call[p]
                   req == Fetch(store', f.user)
               IN  /\ f.op = "RegisterFCM" => Count(req.FCMTokens, f.arg) = 1
                   /\ f.op = "RegisterWeb" =>
                         /\ Count(WebEndpoints(req), f.arg) = 1
                         /\ WebSub(f.arg, f.keys) \in Range(req.WebSubscriptions)

\* C18: registration is an idempotent upsert: a token registered twice has one entry
\* in Fetch, and an endpoint registered again with other keys has one subscription,
\* with the keys of the latest registration.
C18_IdempotentUpsert ==
    []C18_NoDuplicates /\ [][C18_UpsertStep]_vars

\* e2 was registered as a mobile token twice and is returned once; e1 was registered
\* as a web endpoint with the second pair of keys and is returned once, with them.
C18_Witness ==
    /\ Quiet(UserA)
    /\ applied[<<UserA, "e2">>] = <<"RegisterFCM", "RegisterFCM">>
    /\ applied[<<UserA, "e1">>] = <<"RegisterWeb">>
    /\ Fetch(store, UserA).FCMTokens = <<"e2">>
    /\ Fetch(store, UserA).WebSubscriptions = <<WebSub("e1", KeysB)>>

\* The records of the user's device documents.
RecordsOf(user) ==
    {store[ref] : ref \in {r \in DOMAIN store : SubSeq(r, 1, 3) = devicesCollection(user)}}

\* C19 (state part): Fetch of a user returns the tokens of the user's mobile rows in
\* the mobile list and the subscriptions of the web rows in the web list, nothing
\* else and nothing twice, and two empty lists for a user without rows; an endpoint
\* whose last registry operation was a register is in the list of that channel only.
C19_FetchState ==
    \A u \in Users :
        LET req == Fetch(store, u)
            rows == RecordsOf(u)
        IN  /\ req.RecipientID = u
            /\ Range(req.FCMTokens) = {r.Token : r \in {x \in rows : x.Platform = "fcm"}}
            /\ Range(req.WebSubscriptions) =
                  {r.WebSubscription[1] : r \in {x \in rows : x.Platform = "web"}}
            /\ Len(req.FCMTokens) + Len(req.WebSubscriptions) = Cardinality(rows)
            /\ rows = {} => req = EmptyRequest(u)
            /\ (u \notin overlapped /\ Quiet(u)) =>
                  \A e \in Endpoints :
                     /\ lastWrite(u, e) = "RegisterFCM" =>
                           e \in Range(req.FCMTokens) /\ e \notin Range(WebEndpoints(req))
                     /\ lastWrite(u, e) = "RegisterWeb" =>
                           e \in Range(WebEndpoints(req)) /\ e \notin Range(req.FCMTokens)

\* C19 (step part): a Fetch whose enumeration succeeds returns that partition of the
\* rows with a nil error.
C19_FetchStep ==
    \A p \in Procs :
        (/\ call[p].op = "Fetch"
         /\ call[p].pc = "read"
         /\ call'[p].pc # "read"
         /\ call'[p].err = "")
            => call'[p].res = Fetch(store, call[p].user)

\* C19: Fetch returns exactly the user's registered devices, partitioned by channel.
C19_FetchPartitions ==
    []C19_FetchState /\ [][C19_FetchStep]_vars

\* A Fetch has returned a mobile token and a web subscription, each in its own list.
C19_Witness ==
    \E p \in Procs :
        /\ call[p].op = "Fetch" /\ call[p].pc = "ret" /\ call[p].err = ""
        /\ call[p].res.FCMTokens = <<"e2">>
        /\ WebEndpoints(call[p].res) = <<"e1">>
        /\ lastWrite(UserA, "e2") = "RegisterFCM"

\* Does the tag of the record disagree with the payload that is present.
Mismatched(r) ==
    \/ r.Platform = "web" /\ r.WebSubscription = << >>
    \/ r.Platform = "fcm" /\ r.Token = ""

\* C20: a Fetch returns nothing of a row whose tag does not match its payload: not
\* the token of a row tagged web that has no subscription, and not the subscription
\* of a row tagged mobile that has no token.
C20_MismatchedRowsSkipped ==
    \A p \in Procs :
        (call[p].op = "Fetch" /\ call[p].pc = "ret" /\ call[p].err = "")
            => \A r \in RecordsOf(call[p].user) :
                  Mismatched(r) =>
                     /\ r.Token \notin Range(call[p].res.FCMTokens)
                     /\ r.WebSubscription = << >>
                           \/ r.WebSubscription[1] \notin Range(call[p].res.WebSubscriptions)

\* The half of C20 the code satisfies: nothing of a row tagged mobile that has no
\* token is returned, also when it holds a subscription.
C20_TokenlessMobileRowSkipped ==
    \A p \in Procs :
        (call[p].op = "Fetch" /\ call[p].pc = "ret" /\ call[p].err = "")
            => \A r \in RecordsOf(call[p].user) :
                  (r.Platform = "fcm" /\ r.Token = "")
                     => /\ call[p].res.FCMTokens = << >>
                        /\ call[p].res.WebSubscriptions = << >>

-----------------------------------------------------------------------------
(* Claims about the dispatchers *)

\* The indexes of a batch, in order, whose outcome is one of the given ones.
IndexesWith(outcomes, wanted) ==
    SelectSeq([i \in 1..Len(outcomes) |-> i], LAMBDA i : outcomes[i] \in wanted)

\* C21: the invalid list the web dispatcher returns holds the subscriptions, in input
\* order, whose push service answered 404 or 410, and no subscription that was
\* answered 201 or another status or whose send failed in transport.
C21_WebInvalidList ==
    \A w \in Workers :
        (hnd[w].pc = "returned" /\ hnd[w].channel = "web" /\ ~hnd[w].marshalErr)
            => LET subs == hnd[w].req.WebSubscriptions
                   gone404 == IndexesWith(hnd[w].webOutcome, {404, 410})
               IN  hnd[w].invalid = [k \in 1..Len(gone404) |-> subs[gone404[k]]]

\* Two subscriptions were sent to: the first was answered 500, the second 404, and
\* only the second is returned as invalid.
C21_Witness ==
    \E w \in Workers :
        /\ hnd[w].pc = "returned" /\ hnd[w].channel = "web"
        /\ WebEndpoints(hnd[w].req) = <<"e1", "e2">>
        /\ hnd[w].webOutcome = <<500, 404>>
        /\ hnd[w].invalid = <<WebSub("e2", KeysA)>>

\* C22: the web dispatcher returns an error only when the payload did not marshal;
\* whatever the push services answered it returns no error and has sent to every
\* subscription of the list, also to those after one whose send failed.
C22_WebNeverFails ==
    \A w \in Workers :
        (hnd[w].pc = "returned" /\ hnd[w].channel = "web")
            => /\ hnd[w].err # "" => hnd[w].marshalErr
               /\ ~hnd[w].marshalErr =>
                     /\ hnd[w].err = ""
                     /\ hnd[w].provider = Len(hnd[w].req.WebSubscriptions)

\* The send to the first of two subscriptions failed in transport, the second was
\* sent to and answered 201, and the dispatcher returned no error.
C22_Witness ==
    \E w \in Workers :
        /\ hnd[w].pc = "returned" /\ hnd[w].channel = "web"
        /\ hnd[w].webOutcome = <<0, 201>>
        /\ hnd[w].provider = 2
        /\ hnd[w].err = ""
        /\ hnd[w].receipt.counts = <<1, 0, 1>>

\* C23: the FCM dispatcher returns an error exactly if the multicast failed as a
\* whole, other than by InvalidArgument, or a token's failure is neither
\* InvalidArgument nor Unregistered; otherwise its invalid list holds the tokens at
\* the indexes of the failed responses, in order.
C23_FCMErrorIffRetryable ==
    \A w \in Workers :
        (hnd[w].pc = "returned" /\ hnd[w].channel = "fcm" /\ hnd[w].provider > 0)
            => LET b == hnd[w].fcmOutcome
                   tokens == hnd[w].req.FCMTokens
                   retryable ==
                       \/ b.kind = "transport"
                       \/ /\ b.kind = "batch"
                          /\ \E i \in 1..Len(b.responses) :
                                b.responses[i] \notin {"ok", "invalidArgument", "unregistered"}
                   failed == IndexesWith(b.responses, {"invalidArgument", "unregistered"})
               IN  /\ hnd[w].err # "" <=> retryable
                   /\ (b.kind = "batch" /\ ~retryable) =>
                         hnd[w].invalid = [k \in 1..Len(failed) |-> tokens[failed[k]]]

\* Of two tokens one was answered Unregistered and the other InvalidArgument: the
\* dispatcher returned both as invalid and no error.
C23_Witness ==
    \E w \in Workers :
        /\ hnd[w].pc = "returned" /\ hnd[w].channel = "fcm"
        /\ hnd[w].req.FCMTokens = <<"e1", "e2">>
        /\ hnd[w].fcmOutcome.kind = "batch"
        /\ hnd[w].fcmOutcome.responses = <<"unregistered", "invalidArgument">>
        /\ hnd[w].invalid = <<"e1", "e2">>
        /\ hnd[w].err = ""

\* Did FCM reject the whole batch of one of these sends as InvalidArgument.
BatchRejected(sends) == \E i \in 1..Len(sends) : sends[i].rejected

\* C24: when FCM rejects the whole batch as InvalidArgument the dispatcher returns no
\* error and no invalid token: the processor unregisters no mobile token, goes on and
\* returns nil, and the delivery is acknowledged.
C24_RejectedBatchIsDropped ==
    /\ \A w \in Workers :
          BatchRejected(hnd[w].sends) =>
             /\ ~AnyError(hnd[w].sends)
             /\ \A i \in 1..Len(hnd[w].invalids) : hnd[w].invalids[i][1] # "fcm"
             /\ \A i \in 1..Len(hnd[w].heals) : hnd[w].heals[i][1] # "fcm"
             /\ hnd[w].pc = "done" => hnd[w].result = "ok" /\ hnd[w].ret = ""
    /\ \A m \in Msgs :
          \A i \in 1..Len(journal[m]) :
             BatchRejected(journal[m][i].sends) =>
                /\ journal[m][i].outcome = "ack"
                /\ \A k \in 1..Len(journal[m][i].heals) : journal[m][i].heals[k][1] # "fcm"

\* The one delivery of m1 had its two tokens rejected as a batch and was acked; both
\* tokens are still registered.
C24_Witness ==
    /\ Len(journal["m1"]) = 1
    /\ BatchRejected(journal["m1"][1].sends)
    /\ journal["m1"][1].outcome = "ack"
    /\ bus["m1"].status = "acked"
    /\ Len(Fetch(store, UserA).FCMTokens) = 2

\* The receipts that say the dispatch was skipped for want of endpoints.
SkippedReceipts == {"skipped: no tokens", "skipped: no subscriptions"}

\* C25: called with an empty list, the FCM dispatcher and the web dispatcher each
\* return a receipt that says skipped, an empty invalid list and no error, and make
\* no call to the provider.
C25_EmptyDispatchSkipped ==
    \A w \in Workers :
        (/\ hnd[w].pc = "returned"
         /\ ~hnd[w].marshalErr
         /\ hnd[w].req.FCMTokens = << >>
         /\ hnd[w].req.WebSubscriptions = << >>)
            => /\ hnd[w].receipt.text \in SkippedReceipts
               /\ hnd[w].invalid = << >>
               /\ hnd[w].err = ""
               /\ hnd[w].provider = 0

\* The part of C25 that holds for both dispatchers: no invalid endpoint, no error and
\* no call to the provider.
C25_EmptyDispatchIsNoOp ==
    \A w \in Workers :
        (/\ hnd[w].pc = "returned"
         /\ ~hnd[w].marshalErr
         /\ hnd[w].req.FCMTokens = << >>
         /\ hnd[w].req.WebSubscriptions = << >>)
            => /\ hnd[w].invalid = << >>
               /\ hnd[w].err = ""
               /\ hnd[w].provider = 0
               /\ hnd[w].channel = "fcm" => hnd[w].receipt.text = "skipped: no tokens"

-----------------------------------------------------------------------------
(* Claims about the TokenAPI handlers *)

\* The request the handler of p is serving came without a usable identity: none in
\* the context, or a string urn.Parse does not accept.
BadIdentity(f) == ~f.identity.ok \/ urnParse(f.identity.id).err # ""

\* A request through the TokenAPI (registry calls made directly carry no body).
APIFrame(f) == f.op \in WriteOps /\ f.pc # "idle" /\ (f.identity.ok \/ f.pc = "rejected")

\* C26: a request to a mutate endpoint whose context holds no identity, or an identity
\* that urn.Parse rejects, is answered 401 and never reaches the registry, whatever
\* its body is.
C26_BadIdentityRejected ==
    \A p \in Clients :
        (APIFrame(call[p]) /\ BadIdentity(call[p]))
            => (call[p].pc = "rejected" /\ call[p].status = 401)

\* The part that holds: a request without an identity in its context is answered 401
\* and never reaches the registry.
C26_AbsentIdentityRejected ==
    \A p \in Clients :
        (call[p].pc # "idle" /\ ~call[p].identity.ok)
            => (call[p].pc = "rejected" /\ call[p].status = 401)

\* The registration request of frame f is one the handlers are to refuse: a body that
\* is no JSON text, no token, or a subscription without endpoint, p256dh or auth.
InvalidRegistration(f) ==
    /\ f.op \in RegisterOps
    /\ \/ ~ValidJSON(f.body)
       \/ f.op = "RegisterFCM" /\ f.body.Token = ""
       \/ f.op = "RegisterWeb" /\ f.body.Endpoint = ""
       \/ f.op = "RegisterWeb" /\ f.body.Keys.P256dh = ""
       \/ f.op = "RegisterWeb" /\ f.body.Keys.Auth = ""

\* C27: an authenticated registration request with a body that is not valid JSON,
\* with an empty token, or with an empty endpoint, p256dh or auth key is answered 400
\* and no registry operation is called for it.
C27_InvalidRegistrationRejected ==
    \A p \in Clients :
        (APIFrame(call[p]) /\ call[p].identity.ok /\ InvalidRegistration(call[p]))
            => (call[p].pc = "rejected" /\ call[p].status = 400)

\* The part that holds: the same for every body but a JSON value followed by more
\* text, and the rejected request leaves the store, the cache and the write history
\* as they were.
C27_UndecodableOrIncompleteRejected ==
    \A p \in Clients :
        (/\ APIFrame(call[p]) /\ call[p].identity.ok /\ InvalidRegistration(call[p])
         /\ call[p].body.shape # "trailing")
            => (call[p].pc = "rejected" /\ call[p].status = 400)

C27_RejectionLeavesRegistry ==
    [][\A p \in Clients :
          (call[p].pc = "idle" /\ call'[p].pc = "rejected")
              => UNCHANGED <<store, cache, applied>>]_vars

\* C28: the handler of each of the four mutate endpoints answers 204 exactly when its
\* registry operation returned no error, and 500 when it returned one (a failed
\* store write or a failed cache invalidation).
C28_StatusIffRegistrySuccess ==
    [][\A p \in Clients :
          (call[p].pc = "ret" /\ call'[p].pc = "idle" /\ call[p].op \in WriteOps)
              => /\ (ResponseStatus(call[p].op, call[p].err) = 204) <=> (call[p].err = "")
                 /\ call[p].err # "" => ResponseStatus(call[p].op, call[p].err) = 500]_vars

\* The part that holds: the three handlers that check the registry error.
C28_CheckedHandlersStatus ==
    [][\A p \in Clients :
          (/\ call[p].pc = "ret" /\ call'[p].pc = "idle"
           /\ call[p].op \in WriteOps \ {"UnregisterFCM"})
              => /\ (ResponseStatus(call[p].op, call[p].err) = 204) <=> (call[p].err = "")
                 /\ call[p].err # "" => ResponseStatus(call[p].op, call[p].err) = 500]_vars

-----------------------------------------------------------------------------
(* Claims about the service Wrapper *)

\* The positions in the Wrapper's call history of a call whose name begins as given.
SvcCalls(names) == {i \in 1..Len(svc.trace) : svc.trace[i] \in names}

PipelineStops == {"pipelineService.Stop:ok", "pipelineService.Stop:err"}
HTTPShutdowns == {"BaseServer.Shutdown:ok", "BaseServer.Shutdown:err"}

\* C29: whenever readiness is true, pipelineService.Start has returned without error
\* before it was set; and when pipelineService.Start fails, Start returns an error,
\* readiness stays false and the HTTP server is never started.
C29_ReadyOnlyAfterPipelineStart ==
    /\ svc.ready =>
          \E i \in SvcCalls({"pipelineService.Start:ok"}) :
              \A j \in SvcCalls({"SetReady(true)"}) : i < j
    /\ SvcCalls({"pipelineService.Start:err"}) # {} =>
          /\ svc.startRet # ""
          /\ ~svc.ready
          /\ svc.http = "down"
          /\ SvcCalls({"BaseServer.Start"}) = {}

C29_Witness ==
    /\ svc.ready
    /\ svc.pc = "serving"
    /\ svc.pipeline = "running"
    /\ \E m \in Msgs : journal[m] # << >>

\* The other case of C29: the pipeline failed to start and Start returned its error.
C29_FailedStart ==
    /\ svc.pc = "startFailed"
    /\ svc.pipeline = "failed"
    /\ svc.startRet = "failed to start processing service"

\* C30: Shutdown calls BaseServer.Shutdown only after pipelineService.Stop has
\* returned, and once Shutdown has returned the HTTP server has been shut down,
\* also when pipelineService.Stop returned an error.
C30_PipelineStopsBeforeHTTP ==
    /\ \A j \in SvcCalls(HTTPShutdowns) : \E i \in SvcCalls(PipelineStops) : i < j
    /\ svc.pc = "down" => (SvcCalls(HTTPShutdowns) # {} /\ svc.http = "closed")

C30_Witness ==
    /\ svc.pc = "down"
    /\ svc.pipeline = "stopFailed"
    /\ svc.http = "closed"
    /\ svc.trace[Len(svc.trace) - 1] = "pipelineService.Stop:err"

\* The failures an error returned by Shutdown reports: finalErr holds one plain
\* error, the one assigned last.
ErrorReports(err) == IF err = "" THEN {} ELSE {err}

\* The failures of the two steps of a Shutdown, from the Wrapper's call history.
ShutdownFailures ==
    (IF SvcCalls({"pipelineService.Stop:err"}) # {} THEN {"pipeline"} ELSE {})
        \cup (IF SvcCalls({"BaseServer.Shutdown:err"}) # {} THEN {"http"} ELSE {})

\* C31: once Shutdown has returned, its error is nil exactly when the pipeline stop
\* and the HTTP server shutdown both succeeded, and it reports every step that
\* failed: the pipeline's error too when both failed.
C31_ShutdownAggregatesErrors ==
    svc.pc = "down" =>
        /\ (svc.finalErr = "") <=> (ShutdownFailures = {})
        /\ ErrorReports(svc.finalErr) = ShutdownFailures

\* The part that holds: nil exactly when both steps succeeded, and the error of the
\* step that failed last otherwise.
C31_NilIffBothSucceeded ==
    svc.pc = "down" =>
        /\ (svc.finalErr = "") <=> (ShutdownFailures = {})
        /\ ErrorReports(svc.finalErr) \subseteq ShutdownFailures

-----------------------------------------------------------------------------
(* Claims about the configuration *)

\* What the claim asks of a Config returned without error, of the required fields,
\* and of the overrides by the variables that hold strings.
ConfigContract(y, e, c, err) ==
    /\ err = "" =>
          /\ c.ProjectID # "" /\ c.SubscriptionID # "" /\ c.ListenAddr # ""
          /\ e.PORT # "" => c.ListenAddr = ":" \o e.PORT
          /\ (e.PORT = "" /\ y.ListenAddr = "") => c.ListenAddr = ":8080"
          /\ c.NumPipelineWorkers >= 1
          /\ c.PubsubConsumerConfig.set
    /\ (e.PROJECT_ID = "" /\ y.ProjectID = "") => err # ""
    /\ (e.SUBSCRIPTION_ID = "" /\ y.SubscriptionID = "") => err # ""
    /\ err = "" =>
          /\ e.PROJECT_ID # "" => c.ProjectID = e.PROJECT_ID
          /\ e.SUBSCRIPTION_ID # "" =>
                /\ c.SubscriptionID = e.SUBSCRIPTION_ID
                /\ c.PubsubConsumerConfig.SubscriptionID = e.SUBSCRIPTION_ID
          /\ e.SUBSCRIPTION_DLQ_TOPIC_ID # "" =>
                c.SubscriptionDLQTopicID = e.SUBSCRIPTION_DLQ_TOPIC_ID
          /\ e.REDIS_ADDR # "" => c.RedisAddr = e.REDIS_ADDR

-----------------------------------------------------------------------------
(* Claims about mixed batches, channels and users *)

\* The FCM dispatcher returned from a batch in which a token failed fatally and
\* another one transiently.
MixedBatch(f) ==
    /\ f.pc = "returned" /\ f.channel = "fcm" /\ f.fcmOutcome.kind = "batch"
    /\ IndexesWith(f.fcmOutcome.responses, {"invalidArgument", "unregistered"}) # << >>
    /\ \E i \in 1..Len(f.fcmOutcome.responses) :
          f.fcmOutcome.responses[i] \notin {"ok", "invalidArgument", "unregistered"}

\* C34: from a batch with both fatally and transiently failing tokens the FCM
\* dispatcher returns the retryable error together with the fatally failing tokens
\* in its invalid list.
C34_MixedBatchReturnsInvalid ==
    \A w \in Workers :
        MixedBatch(hnd[w]) =>
            LET fatal == IndexesWith(hnd[w].fcmOutcome.responses,
                                     {"invalidArgument", "unregistered"})
            IN  /\ hnd[w].err # ""
                /\ hnd[w].invalid = [k \in 1..Len(fatal) |-> hnd[w].req.FCMTokens[fatal[k]]]

\* The part that holds: the retryable error is returned, with an empty invalid list.
C34_MixedBatchReturnsError ==
    \A w \in Workers :
        MixedBatch(hnd[w]) => (hnd[w].err # "" /\ hnd[w].invalid = << >>)

\* C35: when a dispatcher returned invalid endpoints together with an error, the
\* processor has called unregister for every one of them, in order, by the time it
\* returns, and what it returns is the dispatcher's error.
C35_PruneBeforeError ==
    \A w \in Workers :
        (Fetched(hnd[w]) /\ hnd[w].pc = "done")
            => /\ hnd[w].heals = hnd[w].invalids
               /\ Len(hnd[w].healErrs) = Len(hnd[w].heals)
               /\ AnyError(hnd[w].sends) =>
                     (hnd[w].result = "err" /\ hnd[w].ret = "dispatch failed")

\* The FCM dispatcher returned both tokens of the user as invalid and an error: both
\* were unregistered and the processor returned the error.
C35_Witness ==
    \E w \in Workers :
        /\ hnd[w].pc = "done"
        /\ hnd[w].result = "err"
        /\ Len(hnd[w].sends) = 1
        /\ hnd[w].sends[1].channel = "fcm" /\ hnd[w].sends[1].err
        /\ Len(hnd[w].invalids) = 2
        /\ hnd[w].heals = hnd[w].invalids

\* The devices of the channel other than the one the operation is about, before and
\* after the store write of client p.
OtherChannelKept(p) ==
    LET before == Fetch(store, call[p].user)
        after == Fetch(store', call[p].user)
    IN  IF ChannelOf(call[p].op) = "web"
        THEN after.FCMTokens = before.FCMTokens
        ELSE after.WebSubscriptions = before.WebSubscriptions

\* C36: the store write of RegisterWeb or UnregisterWeb leaves the user's mobile
\* tokens as they were, and the one of RegisterFCM or UnregisterFCM leaves the web
\* subscriptions as they were, also when a token and an endpoint are the same string.
C36_ChannelsIndependent ==
    [][\A p \in Clients :
          (call[p].pc = "write" /\ call'[p].pc # "write" /\ call[p].op \in WriteOps)
              => OtherChannelKept(p)]_vars

\* The part that holds: the same when no device of the other channel is registered
\* under the string the operation names.
C36_DistinctStringsIndependent ==
    [][\A p \in Clients :
          (/\ call[p].pc = "write" /\ call'[p].pc # "write" /\ call[p].op \in WriteOps
           /\ LET before == Fetch(store, call[p].user)
              IN  IF ChannelOf(call[p].op) = "web"
                  THEN call[p].arg \notin Range(before.FCMTokens)
                  ELSE call[p].arg \notin Range(WebEndpoints(before)))
              => OtherChannelKept(p)]_vars

-----------------------------------------------------------------------------
(* Claims about the unregister endpoints, users and the handler's writes *)

\* The unregister request of frame f decodes and names no device.
EmptyUnregister(f) ==
    /\ f.op \in UnregisterOps
    /\ jsonDecode(f.body).err = ""
    /\ f.op = "UnregisterFCM" => jsonDecode(f.body).Token = ""
    /\ f.op = "UnregisterWeb" => jsonDecode(f.body).Endpoint = ""

\* C39: an authenticated request to unregister/mobile with an empty token, or to
\* unregister/web with an empty endpoint, is answered 400 and calls no registry
\* operation.
C39_EmptyUnregisterRejected ==
    \A p \in Clients :
        (APIFrame(call[p]) /\ call[p].identity.ok /\ EmptyUnregister(call[p]))
            => (call[p].pc = "rejected" /\ call[p].status = 400)

\* The part that holds: unregister/web with an empty endpoint.
C39_EmptyWebUnregisterRejected ==
    \A p \in Clients :
        (/\ APIFrame(call[p]) /\ call[p].identity.ok /\ EmptyUnregister(call[p])
         /\ call[p].op = "UnregisterWeb")
            => (call[p].pc = "rejected" /\ call[p].status = 400)

\* What the registry holds for user v: the stored devices as Fetch returns them, and
\* the cache entry, if there is one.
RegistryOf(st, ca, v) ==
    [devices |-> Fetch(st, v),
     entry |-> IF cacheKey(v) \in DOMAIN ca THEN <<ca[cacheKey(v)]>> ELSE << >>]

\* What a Fetch for v through the registry returns when nothing fails.
FetchThrough(st, ca, redis, v) ==
    IF redis /\ cacheKey(v) \in DOMAIN ca
    THEN jsonUnmarshal(ca[cacheKey(v)])
    ELSE Fetch(st, v)

\* C37: a step of a register, an unregister or a Fetch for user u, through the store
\* or through the cached registry, changes neither the stored devices nor the cache
\* entry of any other user v, and Fetch(v) returns the same before and after it.
C37_PerUserIsolation ==
    [][\A p \in Clients :
          (call'[p] # call[p] /\ call[p].pc # "idle")
              => \A v \in Users \ {call[p].user} :
                    /\ RegistryOf(store', cache', v) = RegistryOf(store, cache, v)
                    /\ FetchThrough(store', cache', cfgRedis, v)
                          = FetchThrough(store, cache, cfgRedis, v)]_vars

\* A register, an unregister and a Fetch for UserA have written the store and the
\* cache while UserB's devices are stored and cached.
C37_Witness ==
    /\ cacheKey(UserB) \in DOMAIN cache
    /\ \E p \in Clients :
          /\ call[p].user = UserA
          /\ call[p].pc = "ret"
          /\ call[p].op \in WriteOps
          /\ call[p].err = ""
    /\ Fetch(store, UserA) # Fetch(TwoUserStore, UserA)
    /\ Fetch(store, UserB) = Fetch(TwoUserStore, UserB)

\* C38: the handler never starts a register; a step of a worker changes the store
\* only by the unregister of an endpoint a dispatcher returned as invalid in the same
\* invocation, so with empty invalid lists the store is as before; and it leaves the
\* rows and the cache entry of every user but the fetched one as they were.
C38_HandlerOnlyUnregistersInvalid ==
    [][\A w \in Workers :
          (hnd'[w] # hnd[w] \/ call'[w] # call[w])
              => /\ call'[w].op \notin RegisterOps
                 /\ store' # store
                       => /\ call[w].op \in UnregisterOps
                          /\ call[w].user = hnd[w].user
                          /\ <<ChannelOf(call[w].op), call[w].arg>>
                                \in Range(hnd[w].invalids)
                          /\ store' = StoreApply(store, call[w].op, call[w].user,
                                                 call[w].arg, NoKeys, 0)
                 /\ hnd[w].invalids = << >> => store' = store
                 /\ \A v \in Users \ {hnd[w].user} :
                       RegistryOf(store', cache', v) = RegistryOf(store, cache, v)]_vars

\* One invocation has ended with an invalid device unregistered and another device of
\* the user kept, UserB's rows and cache entry in place.
C38_Witness ==
    \E w \in Workers :
        /\ hnd[w].pc = "done"
        /\ Len(hnd[w].invalids) = 1
        /\ hnd[w].heals = hnd[w].invalids
        /\ Fetch(store, UserA) # EmptyRequest(UserA)
        /\ Fetch(store, UserA) \notin {Fetch(st, UserA) : st \in SeededDevices \ {<< >>}}
        /\ cacheKey(UserB) \in DOMAIN cache
        /\ Fetch(store, UserB).FCMTokens = <<"e1">>

\* An invocation with empty invalid lists has ended and the store is the initial one.
C38_WitnessNoInvalid ==
    \E w \in Workers :
        /\ hnd[w].pc = "done"
        /\ Len(hnd[w].sends) = 2
        /\ hnd[w].invalids = << >>
        /\ store = RegisterFCM(MobileAndWeb, UserB, "e1", 0)

-----------------------------------------------------------------------------
(* Claims about the APNS dispatcher *)

\* The positions of a batch whose push was answered with one of the given outcomes.
AnsweredWith(outcomes, kinds) == {i \in DOMAIN outcomes : outcomes[i] \in kinds}

\* C40: for a non-empty token list the APNS dispatcher returns no error; every token
\* is pushed, also after a transport failure, which is counted as a failure in the
\* receipt; and the invalid list holds exactly the tokens rejected with
\* BadDeviceToken, Unregistered or DeviceTokenNotForTopic.
C40_APNSNeverFails ==
    \A w \in Workers :
        (/\ hnd[w].pc = "returned" /\ hnd[w].channel = "apns"
         /\ hnd[w].req.FCMTokens # << >>)
            => LET tokens == hnd[w].req.FCMTokens
                   outcomes == hnd[w].fcmOutcome.responses
                   dead == AnsweredWith(outcomes, APNSDead)
               IN  /\ hnd[w].err = ""
                   /\ hnd[w].provider = Len(tokens)
                   /\ hnd[w].receipt.counts =
                         <<Cardinality(AnsweredWith(outcomes, {"sent"})),
                           Cardinality(dead),
                           Cardinality(AnsweredWith(outcomes, APNSOutcomes \ {"sent"}))>>
                   /\ Len(hnd[w].invalid) = Cardinality(dead)
                   /\ \A e \in Endpoints :
                         Count(hnd[w].invalid, e)
                            = Cardinality({i \in dead : tokens[i] = e})

\* A batch of two: the push to the first token fails in transport, the second token
\* is rejected with BadDeviceToken and is the only one returned as invalid.
C40_Witness ==
    \E w \in Workers :
        /\ hnd[w].pc = "returned" /\ hnd[w].channel = "apns"
        /\ hnd[w].req.FCMTokens = <<"e1", "e2">>
        /\ hnd[w].fcmOutcome.responses = <<"transport", "BadDeviceToken">>
        /\ hnd[w].invalid = <<"e2">>
        /\ hnd[w].err = ""
        /\ hnd[w].receipt.counts = <<0, 1, 2>>

-----------------------------------------------------------------------------
(* Claims about the round trip of a web subscription *)

\* Every subscription of the list is one that was registered, with the endpoint and
\* the key buffers its registration supplied, and none is there twice.
AsRegistered(subs) ==
    /\ \A i \in 1..Len(subs) :
          /\ subs[i].Endpoint \in Endpoints
          /\ subs[i].Keys = Supplied(subs[i].Endpoint)
          /\ applied[<<UserA, subs[i].Endpoint>>] # << >>
    /\ \A i, j \in 1..Len(subs) : subs[i].Endpoint = subs[j].Endpoint => i = j

\* C33: a web subscription registered through the API with endpoint e and key buffers
\* (p, a) is returned by Fetch, from the store and from the cache, and reaches the web
\* dispatcher with exactly endpoint e and keys (p, a).
C33_WebSubscriptionRoundTrip ==
    /\ AsRegistered(Fetch(store, UserA).WebSubscriptions)
    /\ cacheKey(UserA) \in DOMAIN cache
          => AsRegistered(jsonUnmarshal(cache[cacheKey(UserA)]).WebSubscriptions)
    /\ \A w \in Workers :
          /\ AsRegistered(call[w].res.WebSubscriptions)
          /\ AsRegistered(hnd[w].req.WebSubscriptions)
          /\ \A i \in 1..Len(hnd[w].sends) :
                hnd[w].sends[i].channel = "web"
                    => hnd[w].sends[i].to = WebEndpoints(hnd[w].req)

\* Both subscriptions were registered, the handler passed them to the web dispatcher
\* for the first command and left them in the cache, and the Fetch for the second
\* command has returned them from the cache.
C33_Witness ==
    /\ Len(journal["m1"]) >= 1
    /\ journal["m1"][Len(journal["m1"])].sends
          = <<[channel |-> "web", to |-> <<"e2", "e1">>, err |-> FALSE,
               rejected |-> FALSE]>>
    /\ hnd["w1"].msg = "m2"
    /\ call["w1"].pc = "ret"
    /\ call["w1"].trace = <<"cache.Get:hit">>
    /\ Range(call["w1"].res.WebSubscriptions)
          = {WebSub("e1", KeysA), WebSub("e2", KeysB)}

====
